---- MODULE Spec2Model ----
(***************************************************************************)
(* Model of src/async_processor.py: the Redis-backed task engine           *)
(* (AsyncProcessor).  The store is four Redis structures: the tasks hash,  *)
(* the queue sorted set, the processing set and the results hash.  Every   *)
(* Redis command is one atomic step, taken together with the work on the   *)
(* thread's own values that follows it up to the next command; the worker  *)
(* threads, the cleanup thread and the API callers (submit_task,           *)
(* cancel_task, get_task_status, get_stats, get_queue_info) interleave     *)
(* between commands.  A value the code computes before a command (a clock  *)
(* reading, a score, a record to write) is computed in the step that       *)
(* precedes the command and held in the thread's state, so the command     *)
(* writes what was computed then, whatever the clock says by the time it   *)
(* runs.  Every "with self.stats_lock" block is a step of its own, and so  *)
(* is a loop's test of the running flag: a worker that passed the test     *)
(* and waits in its pop still takes a task after stop cleared the flag.    *)
(* The handler lookup and executor.submit are a step of their own after    *)
(* the sadd: the executor refuses the handler if it was shut down by then, *)
(* otherwise it queues the invocation.  A thread of the executor calling   *)
(* the handler, the handler ending (the future is done) and the worker's   *)
(* future.result returning are three steps; the wait of future.result may  *)
(* run out before the handler is called or while it runs.  stop's          *)
(* executor.shutdown(wait=True) returns only when no handler invocation is *)
(* queued or running.  _cleanup_old_results is the hkeys, one hget per key *)
(* and the hdel, each a step.  The clock advances in steps of TickSeconds  *)
(* seconds; a thread reads it in the step of the command that precedes the *)
(* reading.                                                                *)
(*                                                                         *)
(* A handler invocation returns, raises, or outlives the wait of           *)
(* task.timeout seconds and stays in the executor.  A store                *)
(* command of an API call may raise, and a stored record may decay into a  *)
(* value json.loads or Task.from_dict rejects.                             *)
(*                                                                         *)
(* A store command of a worker thread or of the cleanup thread may raise   *)
(* as well, and stop may clear the flag while a worker waits in its pop.   *)
(*                                                                         *)
(* Task.to_dict, Task.from_dict and the two staleness tests                *)
(* (_is_task_expired and the one of _cleanup_expired_tasks) are also       *)
(* applied to task values on their own, outside the engine (SpecCodec).    *)
(*                                                                         *)
(* Not modelled: stats['average_processing_time'] (a float read by no      *)
(* operation but get_stats), len(self.workers) in the reply of get_stats,  *)
(* an executor with all its threads taken, a second start after stop, a    *)
(* handler that raises a BaseException that is no Exception (SystemExit),  *)
(* a handler result that is an enum member or a dataclass instance,        *)
(* logging, and the Redis connection settings.                             *)
(***************************************************************************)
EXTENDS Integers, Sequences, FiniteSets, TLC

(* ------------------------------ bounds -------------------------------- *)
MaxTasks == 1
MaxQueueTasks == 2
NumWorkers == 2
MaxNow == 2
TickSeconds == 2
ShortTimeout == 1
MaxRetries == 2
MaxPops == 3
result_ttl == 1
MaxCancels == 1
MaxCycles == 1
MaxRaises == 1
MaxLoopRetries == 1
MaxTimedRetries == 1

(* ------------------------- program constants -------------------------- *)
DefaultTimeout == 300
PriorityWeight == 1000000
MaxBackoff == 300
NoTime == 0 - 1

TaskIds == 1..(IF MaxTasks > MaxQueueTasks THEN MaxTasks ELSE MaxQueueTasks)
Workers == 1..NumWorkers
TaskTypes == {"query"}
Payloads == {"p"}
ReturnValues == {"r"}
HandlerErrors == {"handler raised"}
Outcomes == ReturnValues \cup HandlerErrors
None == "None"

(* TaskStatus: member |-> value *)
TaskStatus ==
  [PENDING |-> "pending", RUNNING |-> "running", COMPLETED |-> "completed",
   FAILED |-> "failed", CANCELLED |-> "cancelled", EXPIRED |-> "expired"]

(* TaskPriority: member |-> value *)
TaskPriority == [LOW |-> 1, NORMAL |-> 2, HIGH |-> 3, CRITICAL |-> 4]

StatusMembers == DOMAIN TaskStatus
PriorityMembers == DOMAIN TaskPriority
SubmitPriorities == {"LOW", "CRITICAL"}
(* timeout = 0 is a task that never expires (line 462); submit_task checks *)
(* no argument                                                             *)
NoTimeout == 0
SubmitTimeouts == {NoTimeout, ShortTimeout, DefaultTimeout}
PositiveTimeouts == {ShortTimeout, DefaultTimeout}
SubmitRetries == 0..MaxRetries

(* TaskStatus(value), TaskPriority(value): the member with that value *)
StatusOfValue(v) == CHOOSE m \in StatusMembers : TaskStatus[m] = v
PriorityOfValue(v) == CHOOSE m \in PriorityMembers : TaskPriority[m] = v

(* datetime.isoformat / datetime.fromisoformat: the ISO text of second t   *)
(* is the one-element tuple <<t>>; JSON null is the empty tuple.           *)
isoformat(t) == <<t>>
fromisoformat(s) == s[1]

(* a task object that starts with one retry already counted: what Task    *)
(* must not be                                                             *)
Task_bad(id, type, payload, priority, timeout, max_retries, clock) ==
  [id |-> id, type |-> type, payload |-> payload,
   status |-> "PENDING", priority |-> priority,
   created_at |-> clock, started_at |-> NoTime, completed_at |-> NoTime,
   result |-> None, error |-> None, retry_count |-> 1,
   max_retries |-> max_retries, timeout |-> timeout,
   session_id |-> None, user_id |-> None]

(* Task(...): a new task object; __post_init__ stamps created_at *)
Task(id, type, payload, priority, timeout, max_retries, clock) ==
  [id |-> id, type |-> type, payload |-> payload,
   status |-> "PENDING", priority |-> priority,
   created_at |-> clock, started_at |-> NoTime, completed_at |-> NoTime,
   result |-> None, error |-> None, retry_count |-> 0,
   max_retries |-> max_retries, timeout |-> timeout,
   session_id |-> None, user_id |-> None]

(* a stored value that json.loads cannot decode *)
Undecodable == [raw |-> "{not json"]
(* a status value that is no member of TaskStatus *)
UnknownStatus == "bogus"
decodable(data) == "raw" \notin DOMAIN data
(* json.loads and Task.from_dict both succeed on the stored value *)
well_formed(data) ==
  /\ decodable(data)
  /\ \E m \in StatusMembers : TaskStatus[m] = data.status
  /\ \E m \in PriorityMembers : TaskPriority[m] = data.priority

(* a handler result that is a datetime, and the ISO text of it *)
ResultDatetime == "datetime(2024, 1, 1, 0, 0)"
ResultIsoText == "2024-01-01T00:00:00"
(* Task.to_dict: every field value that is a datetime becomes its ISO      *)
(* text, every one that is an enum member its value (lines 64-69 go by the *)
(* value's type, over all fields: result, typed Any, is the field that may *)
(* hold a datetime besides the three timestamps)                           *)
to_dict(t) ==
  [t EXCEPT
     !.result = IF t.result = ResultDatetime THEN ResultIsoText ELSE t.result,
     !.status = TaskStatus[t.status],
     !.priority = TaskPriority[t.priority],
     !.created_at = IF t.created_at = NoTime THEN <<>> ELSE isoformat(t.created_at),
     !.started_at = IF t.started_at = NoTime THEN <<>> ELSE isoformat(t.started_at),
     !.completed_at = IF t.completed_at = NoTime THEN <<>> ELSE isoformat(t.completed_at)]

(* a decoder that restores created_at and drops the two optional         *)
(* timestamps: what Task.from_dict must not be                             *)
from_dict_bad(d) ==
  [d EXCEPT
     !.status = StatusOfValue(d.status),
     !.priority = PriorityOfValue(d.priority),
     !.created_at = IF d.created_at = <<>> THEN NoTime ELSE fromisoformat(d.created_at),
     !.started_at = NoTime,
     !.completed_at = NoTime]
(* Task.from_dict: ISO text back to datetimes, values back to enum members *)
from_dict(d) ==
  [d EXCEPT
     !.status = StatusOfValue(d.status),
     !.priority = PriorityOfValue(d.priority),
     !.created_at = IF d.created_at = <<>> THEN NoTime ELSE fromisoformat(d.created_at),
     !.started_at = IF d.started_at = <<>> THEN NoTime ELSE fromisoformat(d.started_at),
     !.completed_at = IF d.completed_at = <<>> THEN NoTime ELSE fromisoformat(d.completed_at)]

(* a local that holds no task object / no task dict yet *)
NoTask == [id |-> 0]

(* ----------------------- Redis hash / zset helpers -------------------- *)
Empty == [x \in {} |-> 0]
hset(h, k, v) == [x \in (DOMAIN h) \cup {k} |-> IF x = k THEN v ELSE h[x]]
hdel(h, ks) == [x \in (DOMAIN h) \ ks |-> h[x]]
zadd(z, k, score) == hset(z, k, score)
zrem(z, k) == hdel(z, {k})
(* the members BZPOPMIN may return: those of the lowest score *)
zmin(z) == {k \in DOMAIN z : \A j \in DOMAIN z : z[k] <= z[j]}

Min(a, b) == IF a <= b THEN a ELSE b
RECURSIVE Pow2(_)
Pow2(n) == IF n <= 0 THEN 1 ELSE 2 * Pow2(n - 1)

(* a score that falls as the clock advances: what the score must not be   *)
priority_score_bad(priority, clock) == TaskPriority[priority] * PriorityWeight - clock

(* submit_task: priority.value * 1000000 + int(time.time()) *)
priority_score(priority, clock) == TaskPriority[priority] * PriorityWeight + clock

(* _process_task: delay = min(2 ** retry_count, 300); retry_time = time.time() + delay *)
retry_delay(retry_count) == Min(Pow2(retry_count), MaxBackoff)
retry_time(retry_count, clock) == clock + retry_delay(retry_count)

(* the age counted from started_at, so that a task never started is never *)
(* stale: what _is_task_expired must not be                                *)
is_task_expired_bad(task, clock) ==
  IF task.timeout <= 0 \/ task.started_at = NoTime THEN FALSE
  ELSE (clock - task.started_at) > task.timeout

(* _is_task_expired *)
is_task_expired(task, clock) ==
  IF task.timeout <= 0 THEN FALSE ELSE (clock - task.created_at) > task.timeout

(* _mark_task_expired: the task object it stores *)
mark_task_expired(task, clock) ==
  [task EXCEPT !.status = "EXPIRED", !.completed_at = clock, !.error = "Task expired"]

VARIABLES
  now,            \* the clock, in seconds
  tasks,          \* Redis hash tasks_key: task id -> stored dict
  queue,          \* Redis sorted set queue_key: task id -> score
  processing,     \* Redis set processing_key
  results,        \* Redis hash results_key: task id -> result data
  task_handlers,  \* self.task_handlers: the registered types
  running,        \* self.running
  stats,          \* self.stats counters
  worker,         \* each worker thread: where it is, and its locals
  reaper,         \* the cleanup thread
  submitter,      \* a caller inside submit_task
  canceller,      \* a caller inside cancel_task
  next_id,        \* ids handed out so far (uuid4 is fresh each time)
  invoked,        \* history: handler invocations per task
  returned,       \* history: handler invocations that returned, per task
  last_value,     \* history: the value the handler last returned, per task
  dequeued,       \* history: ids ever returned by a queue pop
  calls,          \* how many cancel_task calls, cleanup cycles and pops there
                  \* were, and how many times a store command raised in a thread
  cancel_ok,      \* history: ids whose cancel_task, called while the stored
                  \* status was pending, has returned True
  timed_out,      \* history: handler invocations whose wait ran out, per task
  after_stop,     \* history: pops made with the flag cleared, per worker
  requeued,       \* history: ids ever put back on the queue for a retry
  issued,         \* history: ids submit_task has returned to its caller
  executor,       \* self.executor: shut down or not; the workers whose
                  \* invocation is queued, not yet called; and per task the
                  \* invocations whose wait ran out, not yet called
                  \* (unstarted) or still running (late)
  stopper,        \* a caller inside stop
  reader,         \* a caller of get_task_status, get_stats or get_queue_info
  codec           \* a caller of Task.to_dict, Task.from_dict and the two
                  \* staleness tests on one task value

vars == <<codec, now, tasks, queue, processing, results, task_handlers, running, stats,
          worker, reaper, submitter, canceller, next_id, calls,
          invoked, returned, last_value, dequeued, cancel_ok, timed_out, after_stop,
          requeued, issued, executor, stopper, reader>>

store == <<tasks, queue, processing, results>>
history == <<invoked, returned, last_value, dequeued, cancel_ok, timed_out, after_stop,
             requeued, issued>>
lifecycle == <<executor, stopper>>

(* a worker thread: where it is, and the locals of _process_task.  aged is *)
(* history: the record of the id it popped was pending and older than its  *)
(* timeout when it was popped; stale: and that timeout was positive.       *)
(* score is the score that came with the popped id (BZPOPMIN returns it;   *)
(* line 335 drops it); behind is history: the ids the pop left waiting.    *)
(* Both are kept until the worker's next step.  future is the handler      *)
(* invocation submitted to the executor (line 383): None, Running, or the  *)
(* outcome it ended with; waiting_since is the time at which the wait for  *)
(* it began (future.result, line 384).                                     *)
Running == "running"
IdleWorker ==
  [pc |-> "off", task_id |-> 0, task |-> NoTask, result |-> None, aged |-> FALSE,
   stale |-> FALSE, score |-> 0, behind |-> {}, future |-> None,
   waiting_since |-> NoTime]
IdleReaper == [pc |-> "off", expired_tasks |-> {}, result_keys |-> {}, old_results |-> {}]
(* a caller of submit_task: task is the task object it has built, score    *)
(* the priority score it has computed; raised says that the last call      *)
(* ended by raising                                                        *)
IdleSubmitter ==
  [pc |-> "idle", task_id |-> 0, task |-> NoTask, score |-> 0, raised |-> FALSE]
(* a caller of cancel_task: call_status is the stored status when the call  *)
(* was made, ret what the last call returned, store_failed whether a store *)
(* command raised during it                                                *)
IdleCanceller ==
  [pc |-> "idle", task_id |-> 0, removed |-> 0, task_dict |-> NoTask,
   call_status |-> None, ret |-> FALSE, store_failed |-> FALSE]

(* a caller of one of the three read operations: op the operation it is   *)
(* in, task_dict the record get_task_status has read, acc what get_stats   *)
(* or get_queue_info has read so far, ret what the last call returned,     *)
(* store_failed whether a store command raised during it                   *)
NoReply == [reply |-> "none"]
IdleReader ==
  [pc |-> "idle", op |-> None, task_id |-> 0, task_dict |-> NoTask, ret |-> NoReply,
   store_failed |-> FALSE, acc |-> Empty]

(* no task value is being encoded *)
IdleCodec ==
  [pc |-> "idle", task |-> NoTask, clock |-> 0, data |-> NoTask, back |-> NoTask,
   worker_expired |-> FALSE, reaper_expired |-> FALSE]

(* __init__: the state after construction *)
InitEngine ==
  /\ now = 0
  /\ tasks = Empty
  /\ queue = Empty
  /\ processing = {}
  /\ results = Empty
  /\ task_handlers = {}
  /\ running = FALSE
  /\ stats = [tasks_processed |-> 0, tasks_failed |-> 0, tasks_cancelled |-> 0,
              active_workers |-> 0]
  /\ worker = [w \in Workers |-> IdleWorker]
  /\ reaper = IdleReaper
  /\ submitter = IdleSubmitter
  /\ canceller = IdleCanceller
  /\ next_id = 0
  /\ calls = [cancel |-> 0, cleanup |-> 0, pop |-> 0, raised |-> 0]
  /\ invoked = [t \in TaskIds |-> 0]
  /\ returned = [t \in TaskIds |-> 0]
  /\ last_value = [t \in TaskIds |-> None]
  /\ dequeued = {}
  /\ cancel_ok = {}
  /\ timed_out = [t \in TaskIds |-> 0]
  /\ after_stop = [w \in Workers |-> 0]
  /\ requeued = {}
  /\ issued = {}
  /\ executor = [shutdown |-> FALSE, queued |-> {}, unstarted |-> [t \in TaskIds |-> 0],
                 late |-> [t \in TaskIds |-> 0]]
  /\ stopper = [pc |-> "idle"]
  /\ reader = IdleReader

Init == InitEngine /\ codec = IdleCodec

(* time passes *)
Tick ==
  /\ now + TickSeconds <= MaxNow
  /\ now' = now + TickSeconds
  /\ UNCHANGED <<codec, store, task_handlers, running, stats, worker, reaper, submitter,
                 canceller, next_id, calls, history,
                 lifecycle, reader>>

(* register_handler *)
register_handler(type) ==
  /\ type \notin task_handlers
  /\ task_handlers' = task_handlers \cup {type}
  /\ UNCHANGED <<codec, now, store, running, stats, worker, reaper, submitter, canceller,
                 next_id, calls, history,
                 lifecycle, reader>>

(* start: sets the flag and starts the worker threads and the cleanup thread *)
start ==
  /\ ~running
  /\ running' = TRUE
  /\ worker' = [w \in Workers |-> [worker[w] EXCEPT !.pc = "idle"]]
  /\ reaper' = [reaper EXCEPT !.pc = "idle"]
  /\ UNCHANGED <<codec, now, store, task_handlers, stats, submitter, canceller, next_id,
                 calls, history,
                 lifecycle, reader>>

(* ------------------------------ submit_task --------------------------- *)
(* lines 194-205: a new id and a new Task, whose __post_init__ reads the   *)
(* clock for created_at (line 59)                                          *)
submit_task(type, payload, priority, timeout, max_retries) ==
  /\ submitter.pc = "idle"
  /\ next_id + 1 \in TaskIds
  /\ LET id == next_id + 1
     IN /\ next_id' = id
        /\ submitter' = [IdleSubmitter EXCEPT
             !.pc = "hset", !.task_id = id,
             !.task = Task(id, type, payload, priority, timeout, max_retries, now)]
  /\ UNCHANGED <<codec, now, store, task_handlers, running, stats, worker, reaper,
                 canceller, calls, history, lifecycle, reader>>

(* lines 207-213: hset of the task's dict; then the priority score is      *)
(* computed, with the clock as it is read then                             *)
submit_task_hset ==
  /\ submitter.pc = "hset"
  /\ tasks' = hset(tasks, submitter.task_id, to_dict(submitter.task))
  /\ submitter' = [submitter EXCEPT
       !.pc = "zadd", !.task = NoTask,
       !.score = priority_score(submitter.task.priority, now)]
  /\ UNCHANGED <<codec, now, queue, processing, results, task_handlers, running, stats,
                 worker, reaper, canceller, next_id, calls, history,
                 lifecycle, reader>>

(* lines 214-217: zadd with the priority score, return the id *)
submit_task_zadd ==
  /\ submitter.pc = "zadd"
  /\ queue' = zadd(queue, submitter.task_id, submitter.score)
  /\ submitter' = IdleSubmitter
  /\ issued' = issued \cup {submitter.task_id}
  /\ UNCHANGED <<codec, now, tasks, processing, results, task_handlers, running, stats,
                 worker, reaper, canceller, next_id, calls, invoked, returned,
                 last_value, dequeued, cancel_ok, timed_out, after_stop, requeued,
                 lifecycle, reader>>

(* --------------------------- get_task_status -------------------------- *)
(* the dict returned, or None (as a one-field record) when there is none *)
NotFound == [status |-> "not-found"]
get_task_status(id) ==
  IF id \notin DOMAIN tasks THEN NotFound
  ELSE IF ~decodable(tasks[id]) THEN NotFound
  ELSE LET task_dict == tasks[id]
       IN IF task_dict.status \in {TaskStatus.COMPLETED, TaskStatus.FAILED}
             /\ id \in DOMAIN results
          THEN [task_dict EXCEPT !.result = results[id].result,
                                 !.error = results[id].error]
          ELSE task_dict

(* get_task_status as a call in two store commands.  store_ok says whether *)
(* the command succeeds; when it raises, or json.loads does, the except of *)
(* line 243 returns None.                                                  *)
(* lines 227-234: hget of the record *)
get_task_status_hget(id, store_ok) ==
  /\ reader.pc = "idle"
  /\ LET call == [IdleReader EXCEPT !.op = "get_task_status", !.task_id = id]
     IN reader' =
          IF ~store_ok THEN [call EXCEPT !.ret = NotFound, !.store_failed = TRUE]
          ELSE IF id \notin DOMAIN tasks THEN [call EXCEPT !.ret = NotFound]
          ELSE IF ~decodable(tasks[id]) THEN [call EXCEPT !.ret = NotFound]
          ELSE IF tasks[id].status \in {TaskStatus.COMPLETED, TaskStatus.FAILED}
          THEN [call EXCEPT !.pc = "result", !.task_dict = tasks[id]]
          ELSE [call EXCEPT !.ret = tasks[id]]
  /\ UNCHANGED <<codec, now, store, task_handlers, running, stats, worker, reaper,
                 submitter, canceller, next_id, calls, history, lifecycle>>

(* a read of the result that takes the entry out of the results hash: what *)
(* get_task_status must not do                                             *)
get_task_status_result_bad(store_ok) ==
  /\ reader.pc = "result"
  /\ reader' = [reader EXCEPT !.pc = "idle", !.task_dict = NoTask,
                              !.ret = reader.task_dict]
  /\ results' = hdel(results, {reader.task_id})
  /\ UNCHANGED <<codec, now, tasks, queue, processing, task_handlers, running, stats,
                 worker, reaper, submitter, canceller, next_id, calls, history,
                 lifecycle>>

(* lines 235-241: hget of the result, merged into the dict returned *)
get_task_status_result(store_ok) ==
  /\ reader.pc = "result"
  /\ LET id == reader.task_id
         task_dict == reader.task_dict
     IN reader' =
          IF ~store_ok
          THEN [reader EXCEPT !.pc = "idle", !.task_dict = NoTask, !.ret = NotFound,
                              !.store_failed = TRUE]
          ELSE IF id \in DOMAIN results
          THEN [reader EXCEPT !.pc = "idle", !.task_dict = NoTask,
                  !.ret = [task_dict EXCEPT !.result = results[id].result,
                                            !.error = results[id].error]]
          ELSE [reader EXCEPT !.pc = "idle", !.task_dict = NoTask, !.ret = task_dict]
  /\ UNCHANGED <<codec, now, store, task_handlers, running, stats, worker, reaper,
                 submitter, canceller, next_id, calls, history, lifecycle>>

(* get_stats reads at four moments: the counters under the lock, then      *)
(* zcard, scard and hlen, one store command each; other threads run in     *)
(* between.  When a command raises the counters alone are returned (line   *)
(* 579).  (len(self.workers) is left out of the reply.)                    *)
(* lines 563-564: the copy of the counters *)
get_stats_copy ==
  /\ reader.pc = "idle"
  /\ reader' = [IdleReader EXCEPT !.op = "get_stats", !.pc = "zcard",
                                  !.acc = [stats |-> stats]]
  /\ UNCHANGED <<codec, now, store, task_handlers, running, stats, worker, reaper,
                 submitter, canceller, next_id, calls, history, lifecycle>>

(* line 568: zcard of the queue *)
get_stats_zcard(store_ok) ==
  /\ reader.pc = "zcard"
  /\ reader' =
       IF store_ok
       THEN [reader EXCEPT !.pc = "scard",
               !.acc = [stats |-> reader.acc.stats,
                        queue_size |-> Cardinality(DOMAIN queue)]]
       ELSE [reader EXCEPT !.pc = "idle", !.acc = Empty, !.store_failed = TRUE,
                           !.ret = [stats |-> reader.acc.stats]]
  /\ UNCHANGED <<codec, now, store, task_handlers, running, stats, worker, reaper,
                 submitter, canceller, next_id, calls, history, lifecycle>>

(* line 569: scard of the processing set *)
get_stats_scard(store_ok) ==
  /\ reader.pc = "scard"
  /\ reader' =
       IF store_ok
       THEN [reader EXCEPT !.pc = "hlen",
               !.acc = [stats |-> reader.acc.stats,
                        queue_size |-> reader.acc.queue_size,
                        processing_size |-> Cardinality(processing)]]
       ELSE [reader EXCEPT !.pc = "idle", !.acc = Empty, !.store_failed = TRUE,
                           !.ret = [stats |-> reader.acc.stats]]
  /\ UNCHANGED <<codec, now, store, task_handlers, running, stats, worker, reaper,
                 submitter, canceller, next_id, calls, history, lifecycle>>

(* lines 570-581: hlen of the tasks hash, the flag, the reply *)
get_stats_hlen(store_ok) ==
  /\ reader.pc = "hlen"
  /\ reader' =
       IF store_ok
       THEN [reader EXCEPT !.pc = "idle", !.acc = Empty,
               !.ret = [stats |-> reader.acc.stats,
                        queue_size |-> reader.acc.queue_size,
                        processing_size |-> reader.acc.processing_size,
                        total_tasks |-> Cardinality(DOMAIN tasks),
                        is_running |-> running]]
       ELSE [reader EXCEPT !.pc = "idle", !.acc = Empty, !.store_failed = TRUE,
                           !.ret = [stats |-> reader.acc.stats]]
  /\ UNCHANGED <<codec, now, store, task_handlers, running, stats, worker, reaper,
                 submitter, canceller, next_id, calls, history, lifecycle>>

(* zrange(queue_key, 0, -1): the members by ascending score.  The store    *)
(* orders members of equal score by their text, and the ids are uuid4      *)
(* texts, so that either order of two such members can be the reply: the   *)
(* set of the orders that can be                                           *)
zrange(z) ==
  {order \in [1..Cardinality(DOMAIN z) -> DOMAIN z] :
     /\ \A i, j \in DOMAIN order : i # j => order[i] # order[j]
     /\ \A i, j \in DOMAIN order : i < j => z[order[i]] <= z[order[j]]}

(* get_queue_info in its store commands: zrange with the scores, smembers, *)
(* then one hget for each queued id and for each id of the processing set; *)
(* other threads run in between.  Any exception (the store, json.loads)    *)
(* gives the empty dict (lines 612-614).                                   *)
(* line 588: zrange *)
get_queue_info_zrange(store_ok) ==
  /\ reader.pc = "idle"
  /\ LET call == [IdleReader EXCEPT !.op = "get_queue_info"]
     IN IF store_ok
        THEN \E order \in zrange(queue) :
               reader' = [call EXCEPT !.pc = "smembers",
                  !.acc = [queue_items |-> [i \in DOMAIN order |->
                                              <<order[i], queue[order[i]]>>],
                           processing_items |-> {},
                           queue_tasks |-> <<>>,
                           processing_tasks |-> {}]]
        ELSE reader' = [call EXCEPT !.store_failed = TRUE, !.ret = Empty]
  /\ UNCHANGED <<codec, now, store, task_handlers, running, stats, worker, reaper,
                 submitter, canceller, next_id, calls, history, lifecycle>>

(* lines 605-609: the reply *)
queue_info_reply(queue_tasks, processing_tasks) ==
  [queue_tasks |-> queue_tasks, processing_tasks |-> processing_tasks,
   registered_handlers |-> task_handlers]

(* line 589: smembers; with nothing to look up the reply follows *)
get_queue_info_smembers(store_ok) ==
  /\ reader.pc = "smembers"
  /\ reader' =
       IF ~store_ok
       THEN [reader EXCEPT !.pc = "idle", !.acc = Empty, !.store_failed = TRUE,
                           !.ret = Empty]
       ELSE IF reader.acc.queue_items = <<>> /\ processing = {}
       THEN [reader EXCEPT !.pc = "idle", !.acc = Empty,
                           !.ret = queue_info_reply(<<>>, {})]
       ELSE [reader EXCEPT !.pc = "hget", !.acc.processing_items = processing]
  /\ UNCHANGED <<codec, now, store, task_handlers, running, stats, worker, reaper,
                 submitter, canceller, next_id, calls, history, lifecycle>>

(* lines 592-603: the hget of the next id, of the queue items first (in    *)
(* their order, each record with its score), then of the processing items; *)
(* an id without a record is left out; after the last one the reply        *)
get_queue_info_hget(store_ok) ==
  /\ reader.pc = "hget"
  /\ LET acc == reader.acc
         failed == [reader EXCEPT !.pc = "idle", !.acc = Empty, !.ret = Empty,
                                  !.store_failed = ~store_ok]
         after(left) ==
           IF left.queue_items = <<>> /\ left.processing_items = {}
           THEN [reader EXCEPT !.pc = "idle", !.acc = Empty,
                   !.ret = queue_info_reply(left.queue_tasks, left.processing_tasks)]
           ELSE [reader EXCEPT !.acc = left]
         rejected(id) == id \in DOMAIN tasks /\ ~decodable(tasks[id])
     IN IF acc.queue_items # <<>>
        THEN LET id == Head(acc.queue_items)[1]
                 score == Head(acc.queue_items)[2]
             IN reader' =
                  IF ~store_ok \/ rejected(id) THEN failed
                  ELSE after([acc EXCEPT
                         !.queue_items = Tail(@),
                         !.queue_tasks = IF id \in DOMAIN tasks
                                         THEN Append(@, <<tasks[id], score>>)
                                         ELSE @])
        ELSE \E id \in acc.processing_items :
               reader' =
                 IF ~store_ok \/ rejected(id) THEN failed
                 ELSE after([acc EXCEPT
                        !.processing_items = @ \ {id},
                        !.processing_tasks = IF id \in DOMAIN tasks
                                             THEN @ \cup {tasks[id]}
                                             ELSE @])
  /\ UNCHANGED <<codec, now, store, task_handlers, running, stats, worker, reaper,
                 submitter, canceller, next_id, calls, history, lifecycle>>

(* ----------------------- the store fails or decays -------------------- *)
(* submit_task, lines 210 and 219-221: the hset raises; submit_task raises *)
submit_task_hset_raises ==
  /\ submitter.pc = "hset"
  /\ submitter' = [IdleSubmitter EXCEPT !.raised = TRUE]
  /\ UNCHANGED <<codec, now, store, task_handlers, running, stats, worker, reaper,
                 canceller, next_id, calls, history, lifecycle, reader>>

(* submit_task, lines 214 and 219-221: the zadd raises after the record was *)
(* stored; submit_task raises                                              *)
submit_task_zadd_raises ==
  /\ submitter.pc = "zadd"
  /\ submitter' = [IdleSubmitter EXCEPT !.raised = TRUE]
  /\ UNCHANGED <<codec, now, store, task_handlers, running, stats, worker, reaper,
                 canceller, next_id, calls, history, lifecycle, reader>>

(* cancel_task, lines 267-269: one of its store commands raises; the call  *)
(* returns False                                                           *)
cancel_task_raises(id) ==
  /\ \/ /\ canceller.pc = "idle"
        /\ id \in 1..next_id
        /\ submitter.task_id # id
        /\ calls.cancel < MaxCancels
        /\ calls' = [calls EXCEPT !.cancel = @ + 1]
     \/ /\ canceller.pc \in {"hget", "hset"}
        /\ id = canceller.task_id
        /\ UNCHANGED calls
  /\ canceller' = [IdleCanceller EXCEPT !.ret = FALSE, !.store_failed = TRUE]
  /\ UNCHANGED <<codec, now, store, task_handlers, running, stats, worker, reaper,
                 submitter, next_id, history, lifecycle, reader>>

(* a stored record decays: its bytes no longer decode, or (schema drift)   *)
(* its status is a value TaskStatus does not have                          *)
corrupt_record(id, undecodable) ==
  /\ id \in DOMAIN tasks
  /\ well_formed(tasks[id])
  /\ submitter.task_id # id
  /\ tasks' = hset(tasks, id, IF undecodable THEN Undecodable
                              ELSE [tasks[id] EXCEPT !.status = UnknownStatus])
  /\ UNCHANGED <<codec, now, queue, processing, results, task_handlers, running, stats,
                 worker, reaper, submitter, canceller, next_id, calls, history,
                 lifecycle, reader>>

(* ------------------------------ cancel_task --------------------------- *)
(* line 251: zrem *)
cancel_task_zrem(id) ==
  /\ canceller.pc = "idle"
  /\ id \in 1..next_id
  /\ submitter.task_id # id
  /\ calls.cancel < MaxCancels
  /\ calls' = [calls EXCEPT !.cancel = @ + 1]
  /\ queue' = zrem(queue, id)
  /\ canceller' = [pc |-> "hget", task_id |-> id,
                   removed |-> IF id \in DOMAIN queue THEN 1 ELSE 0,
                   task_dict |-> NoTask,
                   call_status |-> IF id \in DOMAIN tasks /\ decodable(tasks[id])
                                   THEN tasks[id].status ELSE None,
                   ret |-> FALSE, store_failed |-> FALSE]
  /\ UNCHANGED <<codec, now, tasks, processing, results, task_handlers, running, stats,
                 worker, reaper, submitter, next_id, history,
                 lifecycle, reader>>

(* lines 254-258 and 265: hget; return bool(removed) unless the record is   *)
(* pending, and then the dict is relabelled cancelled and the clock read   *)
(* for completed_at; a value json.loads cannot decode raises to the except *)
(* of line 267: return False                                               *)
cancel_task_hget ==
  /\ canceller.pc = "hget"
  /\ LET id == canceller.task_id
         found == id \in DOMAIN tasks
     IN IF found /\ ~decodable(tasks[id])
        THEN canceller' = [IdleCanceller EXCEPT !.ret = FALSE]
        ELSE IF found /\ tasks[id].status = TaskStatus.PENDING
        THEN canceller' = [canceller EXCEPT
               !.pc = "hset",
               !.task_dict = [tasks[id] EXCEPT
                                !.status = TaskStatus.CANCELLED,
                                !.completed_at = isoformat(now)]]
        ELSE canceller' = [IdleCanceller EXCEPT !.ret = (canceller.removed # 0)]
  /\ UNCHANGED <<codec, now, store, task_handlers, running, stats, worker, reaper,
                 submitter, next_id, calls, history,
                 lifecycle, reader>>

(* lines 261-263: the dict is written back; return True *)
cancel_task_hset ==
  /\ canceller.pc = "hset"
  /\ LET id == canceller.task_id
         task_dict == canceller.task_dict
     IN /\ tasks' = hset(tasks, id, task_dict)
        /\ canceller' = [IdleCanceller EXCEPT !.ret = TRUE]
        /\ cancel_ok' = IF canceller.call_status = TaskStatus.PENDING
                        THEN cancel_ok \cup {id} ELSE cancel_ok
  /\ UNCHANGED <<codec, now, queue, processing, results, task_handlers, running, stats,
                 worker, reaper, submitter, next_id, calls, invoked, returned, last_value,
                 dequeued, timed_out, after_stop, requeued, issued, lifecycle, reader>>

(* ---------------------- _worker_loop / _process_task ------------------ *)
(* the stored record of id is pending and its age exceeds its timeout      *)
(* (the age as line 465 computes it)                                       *)
aged_pending(id) ==
  /\ id \in DOMAIN tasks
  /\ decodable(tasks[id])
  /\ tasks[id].status = TaskStatus.PENDING
  /\ (now - fromisoformat(tasks[id].created_at)) > tasks[id].timeout

(* the same of a record with a timeout: a timeout of 0 or less is none     *)
(* (lines 462-463)                                                         *)
stale_pending(id) ==
  /\ aged_pending(id)
  /\ tasks[id].timeout > 0

(* lines 346-351: _process_task begins: the worker counts itself in *)
process_task_enter(w) ==
  /\ worker[w].pc = "enter"
  /\ stats' = [stats EXCEPT !.active_workers = @ + 1]
  /\ worker' = [worker EXCEPT ![w].pc = "hget", ![w].score = 0, ![w].behind = {}]
  /\ UNCHANGED <<codec, now, store, task_handlers, running, reaper, submitter,
                 canceller, next_id, calls, history, lifecycle, reader>>

(* finally (lines 455-458) *)
leave(st) == [st EXCEPT !.active_workers = IF @ - 1 < 0 THEN 0 ELSE @ - 1]

(* lines 455-458: the finally of _process_task counts the worker out; back *)
(* to the loop                                                             *)
process_task_finally(w) ==
  /\ worker[w].pc = "finally"
  /\ stats' = leave(stats)
  /\ worker' = [worker EXCEPT ![w] = [IdleWorker EXCEPT !.pc = "idle"]]
  /\ UNCHANGED <<codec, now, store, task_handlers, running, reaper, submitter,
                 canceller, next_id, calls, history, lifecycle, reader>>

(* lines 353-368: hget and from_dict of the record, then the staleness     *)
(* check.  No record: return (lines 355-357).  A record that json.loads or *)
(* from_dict rejects raises to the outer except (lines 451-454), which     *)
(* sends an srem next.  A stale task is relabelled expired by              *)
(* _mark_task_expired (lines 470-472), any other running (lines 367-368);  *)
(* either reads the clock here, before the hset that follows.              *)
process_task_hget(w) ==
  /\ worker[w].pc = "hget"
  /\ LET id == worker[w].task_id
     IN IF id \notin DOMAIN tasks
        THEN worker' = [worker EXCEPT ![w].pc = "finally"]
        ELSE IF ~well_formed(tasks[id])
        THEN worker' = [worker EXCEPT ![w].pc = "rejected"]
        ELSE LET task == from_dict(tasks[id])
                 expired == is_task_expired(task, now)
             IN worker' = [worker EXCEPT
                  ![w].task = IF expired THEN mark_task_expired(task, now)
                              ELSE [task EXCEPT !.status = "RUNNING",
                                                !.started_at = now],
                  ![w].pc = IF expired THEN "expire" ELSE "mark"]
  /\ UNCHANGED <<codec, now, store, task_handlers, running, stats, reaper, submitter,
                 canceller, next_id, calls, history,
                 lifecycle, reader>>

(* line 474: _mark_task_expired stores the record as expired; return *)
process_task_expire(w) ==
  /\ worker[w].pc = "expire"
  /\ tasks' = hset(tasks, worker[w].task.id, to_dict(worker[w].task))
  /\ worker' = [worker EXCEPT ![w].pc = "finally"]
  /\ UNCHANGED <<codec, now, queue, processing, results, task_handlers, running, stats,
                 reaper, submitter, canceller, next_id, calls, history,
                 lifecycle, reader>>

(* the record stored as running without its started_at: what the marking   *)
(* must not do                                                             *)
process_task_mark_bad(w) ==
  /\ worker[w].pc = "mark"
  /\ LET task == [worker[w].task EXCEPT !.started_at = NoTime]
     IN /\ tasks' = hset(tasks, worker[w].task_id, to_dict(task))
        /\ worker' = [worker EXCEPT ![w].task = task, ![w].pc = "sadd"]
  /\ UNCHANGED <<codec, now, queue, processing, results, task_handlers, running, stats,
                 reaper, submitter, canceller, next_id, calls, history,
                 lifecycle, reader>>

(* line 369: the record is stored as running *)
process_task_mark(w) ==
  /\ worker[w].pc = "mark"
  /\ tasks' = hset(tasks, worker[w].task_id, to_dict(worker[w].task))
  /\ worker' = [worker EXCEPT ![w].pc = "sadd"]
  /\ UNCHANGED <<codec, now, queue, processing, results, task_handlers, running, stats,
                 reaper, submitter, canceller, next_id, calls, history,
                 lifecycle, reader>>

(* lines 404-414: the task object after a failed attempt *)
failed_attempt(task, err, clock) ==
  [task EXCEPT !.status = "FAILED", !.completed_at = clock, !.error = err,
               !.retry_count = @ + 1]

(* lines 386-389: the task object after a successful attempt *)
completed_attempt(task, value, clock) ==
  [task EXCEPT !.status = "COMPLETED", !.completed_at = clock, !.result = value]

(* a retry decision that allows one attempt more than the budget *)
will_retry_bad(task) == task.retry_count <= task.max_retries + 1
(* line 414: retry if within limits *)
will_retry(task) == task.retry_count <= task.max_retries

(* future.result(timeout=task.timeout) gave up: str() of the TimeoutError  *)
(* it raises                                                               *)
TimeoutText == ""
(* executor.submit on an executor that was shut down: str() of its error   *)
ShutdownText == "cannot schedule new futures after shutdown"

(* lines 371-372: sadd to the processing set *)
process_task_sadd(w) ==
  /\ worker[w].pc = "sadd"
  /\ processing' = processing \cup {worker[w].task_id}
  /\ worker' = [worker EXCEPT ![w].pc = "submit"]
  /\ UNCHANGED <<codec, now, tasks, queue, results, task_handlers, running, stats, reaper,
                 submitter, canceller, next_id, calls, history,
                 lifecycle, reader>>

(* lines 377-384: the handler lookup (no handler raises ValueError to the  *)
(* outer except), then executor.submit, which raises on an executor that   *)
(* was shut down (inside the try of line 381, so that the attempt counts   *)
(* as failed); otherwise the invocation is queued in the executor, whose   *)
(* thread calls the handler later, and the worker begins its wait for it   *)
process_task_submit(w) ==
  /\ worker[w].pc = "submit"
  /\ IF worker[w].task.type \notin task_handlers
     THEN /\ worker' = [worker EXCEPT ![w].pc = "no_handler"]
          /\ UNCHANGED executor
     ELSE IF executor.shutdown
     THEN /\ LET failed == failed_attempt(worker[w].task, ShutdownText, now)
             IN worker' = [worker EXCEPT
                  ![w].task = failed,
                  ![w].pc = IF will_retry(failed) THEN "requeue" ELSE "store_error"]
          /\ UNCHANGED executor
     ELSE /\ worker' = [worker EXCEPT ![w].pc = "exec", ![w].future = Running,
                                      ![w].waiting_since = now]
          /\ executor' = [executor EXCEPT !.queued = @ \cup {w}]
  /\ UNCHANGED <<codec, now, store, task_handlers, running, stats, reaper, submitter,
                 canceller, next_id, calls, history, stopper, reader>>

(* lines 451-454: the outer except, reached with no handler for the type   *)
(* (line 379), with a record that was rejected (line 359) or with a store  *)
(* command that raised, removes the id from the processing set, whoever    *)
(* added it                                                                *)
process_task_no_handler(w) ==
  /\ worker[w].pc \in {"no_handler", "rejected", "except"}
  /\ processing' = processing \ {worker[w].task_id}
  /\ worker' = [worker EXCEPT ![w].pc = "finally"]
  /\ UNCHANGED <<codec, now, tasks, queue, results, task_handlers, running, stats,
                 reaper, submitter, canceller, next_id, calls, history,
                 lifecycle, reader>>

(* line 383, in a thread of the executor: the queued invocation is taken   *)
(* up and the handler is called with the payload                           *)
handler_called(w) ==
  /\ w \in executor.queued
  /\ executor' = [executor EXCEPT !.queued = @ \ {w}]
  /\ invoked' = [invoked EXCEPT ![worker[w].task_id] = @ + 1]
  /\ UNCHANGED <<codec, now, store, task_handlers, running, stats, worker, reaper,
                 submitter, canceller, next_id, calls, returned, last_value, dequeued,
                 cancel_ok, timed_out, after_stop, requeued, issued, stopper, reader>>

(* the handler, called in a thread of the executor, returns a value or     *)
(* raises: the future is done                                              *)
handler_returns(w, outcome) ==
  /\ worker[w].pc = "exec"
  /\ worker[w].future = Running
  /\ w \notin executor.queued
  /\ worker' = [worker EXCEPT ![w].future = outcome]
  /\ LET id == worker[w].task_id
     IN IF outcome \in ReturnValues
        THEN /\ returned' = [returned EXCEPT ![id] = @ + 1]
             /\ last_value' = [last_value EXCEPT ![id] = outcome]
        ELSE UNCHANGED <<returned, last_value>>
  /\ UNCHANGED <<codec, now, store, task_handlers, running, stats, reaper, submitter,
                 canceller, next_id, calls, invoked, dequeued, cancel_ok, timed_out,
                 after_stop, requeued, issued, lifecycle, reader>>

(* lines 384-389 and 404-417: future.result returns what the handler       *)
(* returned, or raises what it raised.  The clock is read here for         *)
(* completed_at and, on a failure, for the retry time.                     *)
process_task_execute(w) ==
  /\ worker[w].pc = "exec"
  /\ worker[w].future \in Outcomes
  /\ LET task == worker[w].task
         outcome == worker[w].future
     IN IF outcome \in ReturnValues
        THEN worker' = [worker EXCEPT
               ![w].task = completed_attempt(task, outcome, now),
               ![w].result = outcome,
               ![w].future = None,
               ![w].waiting_since = NoTime,
               ![w].pc = "store_result"]
        ELSE LET failed == failed_attempt(task, outcome, now)
             IN worker' = [worker EXCEPT
                  ![w].task = failed,
                  ![w].future = None,
                  ![w].waiting_since = NoTime,
                  ![w].pc = IF will_retry(failed) THEN "requeue" ELSE "store_error"]
  /\ UNCHANGED <<codec, now, store, task_handlers, running, stats, reaper, submitter,
                 canceller, next_id, calls, history, lifecycle, reader>>

(* lines 384 and 404-417: the handler has not ended when the wait of       *)
(* task.timeout seconds is over: future.result raises TimeoutError and the *)
(* attempt counts as failed.  The invocation stays in the executor: one    *)
(* that is running keeps running, one still queued is called later.        *)
process_task_wait_timeout(w) ==
  /\ worker[w].pc = "exec"
  /\ worker[w].future = Running
  /\ now - worker[w].waiting_since >= worker[w].task.timeout
  /\ LET failed == failed_attempt(worker[w].task, TimeoutText, now)
     IN worker' = [worker EXCEPT
          ![w].task = failed,
          ![w].future = None,
          ![w].waiting_since = NoTime,
          ![w].pc = IF will_retry(failed) THEN "requeue" ELSE "store_error"]
  /\ timed_out' = [timed_out EXCEPT ![worker[w].task_id] = @ + 1]
  /\ executor' = IF w \in executor.queued
                 THEN [executor EXCEPT !.queued = @ \ {w},
                                       !.unstarted[worker[w].task_id] = @ + 1]
                 ELSE [executor EXCEPT !.late[worker[w].task_id] = @ + 1]
  /\ UNCHANGED <<codec, now, store, task_handlers, running, stats, reaper, submitter,
                 canceller, next_id, calls, invoked, returned, last_value, dequeued,
                 cancel_ok, after_stop, requeued, issued, stopper, reader>>

(* line 383, in a thread of the executor: an invocation whose wait ran out *)
(* while it was queued is taken up, and the handler is called after all    *)
late_handler_called(id) ==
  /\ executor.unstarted[id] > 0
  /\ executor' = [executor EXCEPT !.unstarted[id] = @ - 1, !.late[id] = @ + 1]
  /\ invoked' = [invoked EXCEPT ![id] = @ + 1]
  /\ UNCHANGED <<codec, now, store, task_handlers, running, stats, worker, reaper,
                 submitter, canceller, next_id, calls, returned, last_value, dequeued,
                 cancel_ok, timed_out, after_stop, requeued, issued, stopper, reader>>

(* a handler invocation that outlived its wait returns a value or raises   *)
(* at last; nobody reads its future                                        *)
late_handler_returns(id, outcome) ==
  /\ executor.late[id] > 0
  /\ executor' = [executor EXCEPT !.late[id] = @ - 1]
  /\ IF outcome \in ReturnValues
     THEN /\ returned' = [returned EXCEPT ![id] = @ + 1]
          /\ last_value' = [last_value EXCEPT ![id] = outcome]
     ELSE UNCHANGED <<returned, last_value>>
  /\ UNCHANGED <<codec, now, store, task_handlers, running, stats, worker, reaper,
                 submitter, canceller, next_id, calls, invoked, dequeued, cancel_ok,
                 timed_out, after_stop, requeued, issued, stopper, reader>>

(* lines 391-396: the hset of the result *)
process_task_store_result(w) ==
  /\ worker[w].pc = "store_result"
  /\ results' = hset(results, worker[w].task_id,
                     [result |-> worker[w].result, error |-> None,
                      completed_at |-> isoformat(worker[w].task.completed_at)])
  /\ worker' = [worker EXCEPT ![w].pc = "expire_result"]
  /\ UNCHANGED <<codec, now, tasks, queue, processing, task_handlers, running, stats,
                 reaper, submitter, canceller, next_id, calls, history,
                 lifecycle, reader>>

(* line 397: the expire (it names a key that does not exist and changes    *)
(* nothing)                                                                *)
process_task_expire_result(w) ==
  /\ worker[w].pc = "expire_result"
  /\ worker' = [worker EXCEPT ![w].pc = "tasks_processed"]
  /\ UNCHANGED <<codec, now, store, task_handlers, running, stats, reaper, submitter,
                 canceller, next_id, calls, history, lifecycle, reader>>

(* lines 400-402: tasks_processed is counted *)
process_task_tasks_processed(w) ==
  /\ worker[w].pc = "tasks_processed"
  /\ stats' = [stats EXCEPT !.tasks_processed = @ + 1]
  /\ worker' = [worker EXCEPT ![w].pc = "writeback"]
  /\ UNCHANGED <<codec, now, store, task_handlers, running, reaper, submitter,
                 canceller, next_id, calls, history, lifecycle, reader>>

(* lines 418-421: the id goes back on the queue, scored with the retry     *)
(* time (computed at line 417 with the clock read after the failure, which *)
(* is the one completed_at has); the task object is relabelled pending     *)
process_task_requeue(w) ==
  /\ worker[w].pc = "requeue"
  /\ queue' = zadd(queue, worker[w].task_id,
                   retry_time(worker[w].task.retry_count, worker[w].task.completed_at))
  /\ worker' = [worker EXCEPT ![w].task.status = "PENDING", ![w].pc = "writeback"]
  /\ requeued' = requeued \cup {worker[w].task_id}
  /\ UNCHANGED <<codec, now, tasks, processing, results, task_handlers, running, stats,
                 reaper, submitter, canceller, next_id, calls, invoked, returned,
                 last_value, dequeued, cancel_ok, timed_out, after_stop, issued,
                 lifecycle, reader>>

(* lines 422-429: retries used up: the hset of the error as the result *)
process_task_store_error(w) ==
  /\ worker[w].pc = "store_error"
  /\ results' = hset(results, worker[w].task_id,
                     [result |-> None, error |-> worker[w].task.error,
                      completed_at |-> isoformat(worker[w].task.completed_at)])
  /\ worker' = [worker EXCEPT ![w].pc = "expire_error"]
  /\ UNCHANGED <<codec, now, tasks, queue, processing, task_handlers, running, stats,
                 reaper, submitter, canceller, next_id, calls, history,
                 lifecycle, reader>>

(* line 430: the expire (of a key that does not exist) *)
process_task_expire_error(w) ==
  /\ worker[w].pc = "expire_error"
  /\ worker' = [worker EXCEPT ![w].pc = "tasks_failed"]
  /\ UNCHANGED <<codec, now, store, task_handlers, running, stats, reaper, submitter,
                 canceller, next_id, calls, history, lifecycle, reader>>

(* lines 431-433: tasks_failed is counted *)
process_task_tasks_failed(w) ==
  /\ worker[w].pc = "tasks_failed"
  /\ stats' = [stats EXCEPT !.tasks_failed = @ + 1]
  /\ worker' = [worker EXCEPT ![w].pc = "writeback"]
  /\ UNCHANGED <<codec, now, store, task_handlers, running, reaper, submitter,
                 canceller, next_id, calls, history, lifecycle, reader>>

(* lines 435-436: the write-back of the task object *)
process_task_writeback(w) ==
  /\ worker[w].pc = "writeback"
  /\ tasks' = hset(tasks, worker[w].task_id, to_dict(worker[w].task))
  /\ worker' = [worker EXCEPT ![w].pc = "srem"]
  /\ UNCHANGED <<codec, now, queue, processing, results, task_handlers, running, stats,
                 reaper, submitter, canceller, next_id, calls, history,
                 lifecycle, reader>>

(* lines 438-439: srem from the processing set *)
process_task_srem(w) ==
  /\ worker[w].pc = "srem"
  /\ processing' = processing \ {worker[w].task_id}
  /\ worker' = [worker EXCEPT ![w].pc = "finally"]
  /\ UNCHANGED <<codec, now, tasks, queue, results, task_handlers, running, stats,
                 reaper, submitter, canceller, next_id, calls, history,
                 lifecycle, reader>>

(* ------------- the loop in two steps, and store commands that raise --- *)
(* a loop that goes on whatever the flag says: what the test must not be   *)
worker_loop_test_bad(w) ==
  /\ worker[w].pc = "idle"
  /\ worker' = [worker EXCEPT ![w].pc = "poll"]
  /\ UNCHANGED <<codec, now, store, task_handlers, running, stats, reaper, submitter,
                 canceller, next_id, calls, history, lifecycle, reader>>

(* _worker_loop, line 315: the test of the flag; with the flag cleared the *)
(* loop ends, otherwise the thread goes into _get_next_task                *)
worker_loop_test(w) ==
  /\ worker[w].pc = "idle"
  /\ worker' = [worker EXCEPT ![w].pc = IF running THEN "poll" ELSE "off"]
  /\ UNCHANGED <<codec, now, store, task_handlers, running, stats, reaper, submitter,
                 canceller, next_id, calls, history, lifecycle, reader>>

(* _get_next_task, lines 333-337: BZPOPMIN takes a lowest-scored id off    *)
(* the queue and _process_task is called, whatever the flag says by now;   *)
(* on an empty queue the pop times out after a second and the loop goes on *)
get_next_task(w) ==
  /\ worker[w].pc = "poll"
  /\ \/ \E id \in zmin(queue) :
          /\ calls.pop < MaxPops
          /\ calls' = [calls EXCEPT !.pop = @ + 1]
          /\ queue' = zrem(queue, id)
          /\ worker' = [worker EXCEPT ![w].pc = "enter", ![w].task_id = id,
                                      ![w].aged = aged_pending(id),
                                      ![w].stale = stale_pending(id),
                                      ![w].score = queue[id],
                                      ![w].behind = DOMAIN queue \ {id}]
          /\ dequeued' = dequeued \cup {id}
          /\ after_stop' = [after_stop EXCEPT ![w] = IF running THEN @ ELSE @ + 1]
     \/ /\ DOMAIN queue = {}
        /\ worker' = [worker EXCEPT ![w].pc = "idle"]
        /\ UNCHANGED <<queue, dequeued, calls, after_stop>>
  /\ UNCHANGED <<codec, now, tasks, processing, results, task_handlers, running, stats, reaper,
                 submitter, canceller, next_id, invoked, returned, last_value,
                 cancel_ok, timed_out, requeued, issued, lifecycle, reader>>

(* _get_next_task, lines 340-342: the pop raises; None is returned and the *)
(* loop goes on                                                            *)
get_next_task_raises(w) ==
  /\ worker[w].pc = "poll"
  /\ calls.raised < MaxRaises
  /\ calls' = [calls EXCEPT !.raised = @ + 1]
  /\ worker' = [worker EXCEPT ![w].pc = "idle"]
  /\ UNCHANGED <<codec, now, store, task_handlers, running, stats, reaper, submitter,
                 canceller, next_id, history, lifecycle, reader>>

(* a store error that ends the worker thread: what the loop must not let   *)
(* happen                                                                  *)
process_task_raises_bad(w) ==
  /\ worker[w].pc \in {"hget", "expire", "mark", "sadd", "requeue", "store_error",
                       "expire_error", "writeback", "srem"}
  /\ calls.raised < MaxRaises
  /\ calls' = [calls EXCEPT !.raised = @ + 1]
  /\ worker' = [worker EXCEPT ![w] = IdleWorker]
  /\ UNCHANGED <<codec, now, store, task_handlers, running, stats, reaper, submitter,
                 canceller, next_id, history, lifecycle, reader>>

(* _process_task: the store command the worker is about to send raises     *)
(* (the hget of line 354, the hset of 369, 429, 436 or 474, the sadd of    *)
(* 372, the zadd of 418, the expire of 430, the srem of 439), to the outer *)
(* except (lines 451-454), which sends an srem next                        *)
process_task_raises(w) ==
  /\ worker[w].pc \in {"hget", "expire", "mark", "sadd", "requeue", "store_error",
                       "expire_error", "writeback", "srem"}
  /\ calls.raised < MaxRaises
  /\ calls' = [calls EXCEPT !.raised = @ + 1]
  /\ worker' = [worker EXCEPT ![w].pc = "except"]
  /\ UNCHANGED <<codec, now, store, task_handlers, running, stats, reaper, submitter,
                 canceller, next_id, history, lifecycle, reader>>

(* line 454: the srem of the outer except raises: after a store command    *)
(* that raised it is sent to the same failing store; otherwise it is the   *)
(* command that raises.  The exception leaves _process_task through the    *)
(* finally, and the except of _worker_loop (lines 323-325) catches it.     *)
process_task_srem_raises(w) ==
  /\ \/ /\ worker[w].pc = "except"
        /\ UNCHANGED calls
     \/ /\ worker[w].pc \in {"no_handler", "rejected"}
        /\ calls.raised < MaxRaises
        /\ calls' = [calls EXCEPT !.raised = @ + 1]
  /\ worker' = [worker EXCEPT ![w].pc = "finally"]
  /\ UNCHANGED <<codec, now, store, task_handlers, running, stats, reaper, submitter,
                 canceller, next_id, history, lifecycle, reader>>

(* str() of the error a store command raises *)
StoreErrorText == "store error"

(* lines 396-397 and 404-414: the hset of the result, or the expire after  *)
(* it, raises inside the try around the handler call, so the except meant  *)
(* for the handler takes it: the attempt counts as failed                  *)
store_result_raises(w) ==
  /\ worker[w].pc \in {"store_result", "expire_result"}
  /\ calls.raised < MaxRaises
  /\ calls' = [calls EXCEPT !.raised = @ + 1]
  /\ LET failed == failed_attempt(worker[w].task, StoreErrorText, now)
     IN worker' = [worker EXCEPT
          ![w].task = failed,
          ![w].pc = IF will_retry(failed) THEN "requeue" ELSE "store_error"]
  /\ UNCHANGED <<codec, now, store, task_handlers, running, stats, reaper, submitter,
                 canceller, next_id, history, lifecycle, reader>>

(* --------------------------------- stop ------------------------------- *)
(* line 296: the flag is cleared *)
stop_flag ==
  /\ stopper.pc = "idle"
  /\ running' = FALSE
  /\ stopper' = [stopper EXCEPT !.pc = "join"]
  /\ UNCHANGED <<codec, now, store, task_handlers, stats, worker, reaper, submitter,
                 canceller, next_id, calls, history, executor, reader>>

(* lines 298-304: each worker thread and the cleanup thread is joined for  *)
(* at most 5 seconds, whether it has ended or not                          *)
stop_join ==
  /\ stopper.pc = "join"
  /\ stopper' = [stopper EXCEPT !.pc = "shutdown"]
  /\ UNCHANGED <<codec, now, store, task_handlers, running, stats, worker, reaper,
                 submitter, canceller, next_id, calls, history, executor, reader>>

(* line 307, executor.shutdown(wait=True): no new invocation is accepted   *)
stop_shutdown ==
  /\ stopper.pc = "shutdown"
  /\ executor' = [executor EXCEPT !.shutdown = TRUE]
  /\ stopper' = [stopper EXCEPT !.pc = "wait"]
  /\ UNCHANGED <<codec, now, store, task_handlers, running, stats, worker, reaper,
                 submitter, canceller, next_id, calls, history, reader>>

(* lines 307-309: shutdown returns when no handler invocation is queued or *)
(* running in the executor any more (neither one a worker waits for nor    *)
(* one that outlived its wait); stop returns                               *)
stop_return ==
  /\ stopper.pc = "wait"
  /\ \A id \in TaskIds : executor.late[id] = 0 /\ executor.unstarted[id] = 0
  /\ \A w \in Workers : worker[w].future # Running
  /\ stopper' = [stopper EXCEPT !.pc = "done"]
  /\ UNCHANGED <<codec, now, store, task_handlers, running, stats, worker, reaper,
                 submitter, canceller, next_id, calls, history, executor, reader>>

(* ------------------------------ _cleanup_loop ------------------------- *)
(* _cleanup_expired_tasks, lines 501-518: hgetall, then the ids of the     *)
(* pending records older than their timeout                                *)
expired_pending(all_tasks, clock) ==
  {id \in DOMAIN all_tasks :
     /\ decodable(all_tasks[id])
     /\ (clock - fromisoformat(all_tasks[id].created_at)) > all_tasks[id].timeout
     /\ all_tasks[id].status = TaskStatus.PENDING}

(* _cleanup_old_results, lines 540-548: a result that was read is older    *)
(* than result_ttl                                                         *)
old_result(result_dict, clock) ==
  (clock - fromisoformat(result_dict.completed_at)) > result_ttl

(* _cleanup_loop, line 481: the test of the flag; with the flag cleared the *)
(* loop ends, otherwise a cycle begins.  The sleep between two cycles      *)
(* (cleanup_interval) is not counted.                                      *)
cleanup_loop_test ==
  /\ reaper.pc = "idle"
  /\ IF ~running
     THEN /\ reaper' = [reaper EXCEPT !.pc = "off"]
          /\ UNCHANGED calls
     ELSE /\ calls.cleanup < MaxCycles
          /\ calls' = [calls EXCEPT !.cleanup = @ + 1]
          /\ reaper' = [reaper EXCEPT !.pc = "scan"]
  /\ UNCHANGED <<codec, now, store, task_handlers, running, stats, worker, submitter,
                 canceller, next_id, history,
                 lifecycle, reader>>

(* _cleanup_expired_tasks, lines 501-518: the hgetall and the ids it finds *)
(* expired, whatever the flag says by now                                  *)
cleanup_expired_scan ==
  /\ reaper.pc = "scan"
  /\ LET found == expired_pending(tasks, now)
     IN reaper' = [IdleReaper EXCEPT !.pc = IF found = {} THEN "results" ELSE "zrem",
                                     !.expired_tasks = found]
  /\ UNCHANGED <<codec, now, store, task_handlers, running, stats, worker, submitter,
                 canceller, next_id, calls, history,
                 lifecycle, reader>>

(* lines 520-523: each expired id is removed from the queue *)
cleanup_expired_zrem(id) ==
  /\ reaper.pc = "zrem"
  /\ id \in reaper.expired_tasks
  /\ queue' = zrem(queue, id)
  /\ LET left == reaper.expired_tasks \ {id}
     IN reaper' = [reaper EXCEPT !.expired_tasks = left,
                                 !.pc = IF left = {} THEN "results" ELSE "zrem"]
  /\ UNCHANGED <<codec, now, tasks, processing, results, task_handlers, running, stats,
                 worker, submitter, canceller, next_id, calls, history,
                 lifecycle, reader>>

(* _cleanup_old_results, lines 535-536: hkeys of the results hash; with no *)
(* key there is nothing to read or to remove                               *)
cleanup_results_hkeys ==
  /\ reaper.pc = "results"
  /\ LET result_keys == DOMAIN results
     IN reaper' = [reaper EXCEPT !.result_keys = result_keys, !.old_results = {},
                                 !.pc = IF result_keys = {} THEN "idle" ELSE "hget"]
  /\ UNCHANGED <<codec, now, store, task_handlers, running, stats, worker, submitter,
                 canceller, next_id, calls, history,
                 lifecycle, reader>>

(* after the hget of a key (line 540): the next key, or with none left the *)
(* hdel if a result was found old (line 554), or the end of the cycle      *)
after_hget(rp, keys_left, old) ==
  [rp EXCEPT !.result_keys = keys_left, !.old_results = old,
             !.pc = IF keys_left # {} THEN "hget"
                    ELSE IF old # {} THEN "hdel" ELSE "idle"]

(* lines 538-548: hget of the result of one of the keys; the clock is read *)
(* for its age, and a result older than result_ttl is listed.  A key whose *)
(* result is gone by now is passed over (line 541).                        *)
cleanup_results_hget(id) ==
  /\ reaper.pc = "hget"
  /\ id \in reaper.result_keys
  /\ LET is_old == id \in DOMAIN results /\ old_result(results[id], now)
     IN reaper' = after_hget(reaper, reaper.result_keys \ {id},
                             IF is_old THEN reaper.old_results \cup {id}
                             ELSE reaper.old_results)
  /\ UNCHANGED <<codec, now, store, task_handlers, running, stats, worker, submitter,
                 canceller, next_id, calls, history,
                 lifecycle, reader>>

(* lines 553-556: one hdel of all the old results *)
cleanup_results_hdel ==
  /\ reaper.pc = "hdel"
  /\ results' = hdel(results, reaper.old_results)
  /\ reaper' = [reaper EXCEPT !.old_results = {}, !.result_keys = {}, !.pc = "idle"]
  /\ UNCHANGED <<codec, now, tasks, queue, processing, task_handlers, running, stats,
                 worker, submitter, canceller, next_id, calls, history,
                 lifecycle, reader>>

(* a store command of the cleanup thread raises.  The hgetall of line 502  *)
(* or a zrem of line 522: the except of line 528 ends                      *)
(* _cleanup_expired_tasks and _cleanup_old_results starts; the hkeys of    *)
(* line 535 or the hdel of line 555: the except of line 558 ends the       *)
(* cycle.  The loop goes on.                                               *)
cleanup_raises ==
  /\ calls.raised < MaxRaises
  /\ \/ /\ reaper.pc = "scan"
        /\ calls' = [calls EXCEPT !.raised = @ + 1]
        /\ reaper' = [IdleReaper EXCEPT !.pc = "results"]
     \/ /\ reaper.pc = "zrem"
        /\ calls' = [calls EXCEPT !.raised = @ + 1]
        /\ reaper' = [reaper EXCEPT !.pc = "results", !.expired_tasks = {}]
     \/ /\ reaper.pc \in {"results", "hdel"}
        /\ calls' = [calls EXCEPT !.raised = @ + 1]
        /\ reaper' = [IdleReaper EXCEPT !.pc = "idle"]
  /\ UNCHANGED <<codec, now, store, task_handlers, running, stats, worker, submitter,
                 canceller, next_id, history, lifecycle, reader>>

(* lines 540 and 550-551: the hget of a key raises; the except inside the  *)
(* loop passes the key over and the loop goes on with the next key (and    *)
(* with the hdel of what was found old)                                    *)
cleanup_results_hget_raises(id) ==
  /\ calls.raised < MaxRaises
  /\ reaper.pc = "hget"
  /\ id \in reaper.result_keys
  /\ calls' = [calls EXCEPT !.raised = @ + 1]
  /\ reaper' = after_hget(reaper, reaper.result_keys \ {id}, reaper.old_results)
  /\ UNCHANGED <<codec, now, store, task_handlers, running, stats, worker, submitter,
                 canceller, next_id, history, lifecycle, reader>>

(* ----------------------------- specification -------------------------- *)
(* submit_task with the default priority (which only ranks a task among    *)
(* others), a timeout greater than 0 and any number of retries             *)
Submit ==
  \E type \in TaskTypes, payload \in Payloads, timeout \in PositiveTimeouts,
     max_retries \in SubmitRetries :
    submit_task(type, payload, "NORMAL", timeout, max_retries)

(* submit_task with the default priority, any of the timeouts (0, which    *)
(* any wait outlives, among them) and up to MaxTimedRetries retries        *)
SubmitTimed ==
  \E type \in TaskTypes, payload \in Payloads, timeout \in SubmitTimeouts,
     max_retries \in 0..MaxTimedRetries :
    submit_task(type, payload, "NORMAL", timeout, max_retries)

(* submit_task with the default priority and the default timeout, which no *)
(* handler outlives while the clock stands still, and any number of        *)
(* retries                                                                 *)
SubmitNormal ==
  \E type \in TaskTypes, payload \in Payloads, max_retries \in SubmitRetries :
    submit_task(type, payload, "NORMAL", DefaultTimeout, max_retries)

(* a worker thread takes a step of _process_task for which the clock need *)
(* not have moved (any but the storing of a stale task as expired)         *)
WorkerProcess ==
  \/ \E w \in Workers : process_task_enter(w)
  \/ \E w \in Workers : process_task_hget(w)
  \/ \E w \in Workers : process_task_mark(w)
  \/ \E w \in Workers : process_task_sadd(w)
  \/ \E w \in Workers : process_task_submit(w)
  \/ \E w \in Workers : process_task_no_handler(w)
  \/ \E w \in Workers : handler_called(w)
  \/ \E w \in Workers, outcome \in Outcomes : handler_returns(w, outcome)
  \/ \E w \in Workers : process_task_execute(w)
  \/ \E w \in Workers : process_task_store_result(w)
  \/ \E w \in Workers : process_task_expire_result(w)
  \/ \E w \in Workers : process_task_tasks_processed(w)
  \/ \E w \in Workers : process_task_requeue(w)
  \/ \E w \in Workers : process_task_store_error(w)
  \/ \E w \in Workers : process_task_expire_error(w)
  \/ \E w \in Workers : process_task_tasks_failed(w)
  \/ \E w \in Workers : process_task_writeback(w)
  \/ \E w \in Workers : process_task_srem(w)
  \/ \E w \in Workers : process_task_finally(w)

(* a worker thread takes a step for which the clock need not have moved:  *)
(* one of the loop (the test of the flag, the pop) or of _process_task     *)
WorkerRun ==
  \/ \E w \in Workers : worker_loop_test(w)
  \/ \E w \in Workers : get_next_task(w)
  \/ WorkerProcess

(* a worker thread takes a step *)
WorkerStep ==
  \/ WorkerRun
  \/ \E w \in Workers : process_task_expire(w)
  \/ \E w \in Workers : process_task_wait_timeout(w)

(* a thread of the executor takes a step for an invocation that no worker  *)
(* waits for any more                                                      *)
ExecutorStep ==
  \/ \E id \in TaskIds : late_handler_called(id)
  \/ \E id \in TaskIds, outcome \in Outcomes : late_handler_returns(id, outcome)

(* The engine with its callers, its workers and its cleanup thread, and up *)
(* to MaxTasks submitted tasks.                                            *)
Next ==
  \/ Tick
  \/ \E type \in TaskTypes : register_handler(type)
  \/ start
  \/ (next_id < MaxTasks /\ Submit)
  \/ submit_task_hset
  \/ submit_task_zadd
  \/ \E id \in TaskIds : cancel_task_zrem(id)
  \/ cancel_task_hget
  \/ cancel_task_hset
  \/ WorkerStep
  \/ ExecutorStep
  \/ cleanup_loop_test
  \/ cleanup_expired_scan
  \/ \E id \in TaskIds : cleanup_expired_zrem(id)
  \/ cleanup_results_hkeys
  \/ \E id \in TaskIds : cleanup_results_hget(id)
  \/ cleanup_results_hdel

Spec == Init /\ [][Next]_vars

(* submit_task with the default timeout *)
SubmitQueued ==
  \E type \in TaskTypes, payload \in Payloads, priority \in SubmitPriorities,
     max_retries \in SubmitRetries :
    submit_task(type, payload, priority, DefaultTimeout, max_retries)

(* The queue under load: up to MaxQueueTasks tasks are submitted (with the *)
(* default timeout, which none of them outlives) and the workers take      *)
(* them; nobody cancels and no cleanup cycle runs.                         *)
NextQueue ==
  \/ Tick
  \/ \E type \in TaskTypes : register_handler(type)
  \/ start
  \/ (next_id < MaxQueueTasks /\ SubmitQueued)
  \/ submit_task_hset
  \/ submit_task_zadd
  \/ WorkerRun

SpecQueue == Init /\ [][NextQueue]_vars

(* The engine with handlers that may outlive their deadline, and a caller *)
(* of stop; the engine is started once.                                    *)
NextDeadline ==
  \/ Tick
  \/ \E type \in TaskTypes : register_handler(type)
  \/ (stopper.pc = "idle" /\ start)
  \/ (next_id < MaxTasks /\ SubmitTimed)
  \/ submit_task_hset
  \/ submit_task_zadd
  \/ WorkerStep
  \/ ExecutorStep
  \/ stop_flag
  \/ stop_join
  \/ stop_shutdown
  \/ stop_return

(* stop is a sequential call: each of its steps is taken when it can be;   *)
(* nothing makes a late handler invocation return                          *)
SpecDeadline ==
  /\ Init
  /\ [][NextDeadline]_vars
  /\ WF_vars(stop_join)
  /\ WF_vars(stop_shutdown)
  /\ WF_vars(stop_return)

(* The engine seen through its API: callers submit, cancel and read while  *)
(* the workers run; a store command of an API call may raise.  The clock   *)
(* stands still (no task grows stale) and no cleanup cycle runs.  Of the   *)
(* read operations it has get_task_status (SpecRead has all three).        *)
NextApi ==
  \/ \E type \in TaskTypes : register_handler(type)
  \/ start
  \/ (next_id < MaxTasks /\ SubmitNormal)
  \/ submit_task_hset
  \/ submit_task_zadd
  \/ submit_task_hset_raises
  \/ submit_task_zadd_raises
  \/ \E id \in TaskIds : cancel_task_zrem(id)
  \/ cancel_task_hget
  \/ cancel_task_hset
  \/ \E id \in TaskIds : cancel_task_raises(id)
  \/ WorkerRun
  \/ \E id \in TaskIds, store_ok \in BOOLEAN : get_task_status_hget(id, store_ok)
  \/ \E store_ok \in BOOLEAN : get_task_status_result(store_ok)

SpecApi == Init /\ [][NextApi]_vars

(* a caller takes a step of get_stats or of get_queue_info *)
ReadStep ==
  \/ get_stats_copy
  \/ \E store_ok \in BOOLEAN : get_stats_zcard(store_ok)
  \/ \E store_ok \in BOOLEAN : get_stats_scard(store_ok)
  \/ \E store_ok \in BOOLEAN : get_stats_hlen(store_ok)
  \/ \E store_ok \in BOOLEAN : get_queue_info_zrange(store_ok)
  \/ \E store_ok \in BOOLEAN : get_queue_info_smembers(store_ok)
  \/ \E store_ok \in BOOLEAN : get_queue_info_hget(store_ok)

(* submit_task with the defaults and no retry *)
SubmitOnce ==
  \E type \in TaskTypes, payload \in Payloads :
    submit_task(type, payload, "NORMAL", DefaultTimeout, 0)

(* a worker thread takes a step on tasks that are not retried (the retry   *)
(* branch of lines 415-421 is not taken), the clock standing still         *)
WorkerRunOnce ==
  \/ \E w \in Workers : worker_loop_test(w)
  \/ \E w \in Workers : get_next_task(w)
  \/ \E w \in Workers : process_task_enter(w)
  \/ \E w \in Workers : process_task_hget(w)
  \/ \E w \in Workers : process_task_mark(w)
  \/ \E w \in Workers : process_task_sadd(w)
  \/ \E w \in Workers : process_task_submit(w)
  \/ \E w \in Workers : process_task_no_handler(w)
  \/ \E w \in Workers : handler_called(w)
  \/ \E w \in Workers, outcome \in Outcomes : handler_returns(w, outcome)
  \/ \E w \in Workers : process_task_execute(w)
  \/ \E w \in Workers : process_task_store_result(w)
  \/ \E w \in Workers : process_task_expire_result(w)
  \/ \E w \in Workers : process_task_tasks_processed(w)
  \/ \E w \in Workers : process_task_store_error(w)
  \/ \E w \in Workers : process_task_expire_error(w)
  \/ \E w \in Workers : process_task_tasks_failed(w)
  \/ \E w \in Workers : process_task_writeback(w)
  \/ \E w \in Workers : process_task_srem(w)
  \/ \E w \in Workers : process_task_finally(w)

(* The engine read while it works: callers submit up to MaxQueueTasks      *)
(* tasks (with the defaults and no retry; the clock stands still) and call *)
(* the three read operations, whose store commands may raise, between the  *)
(* steps of the workers; a stored record may decay.  Nobody cancels.       *)
NextRead ==
  \/ \E type \in TaskTypes : register_handler(type)
  \/ start
  \/ (next_id < MaxQueueTasks /\ SubmitOnce)
  \/ submit_task_hset
  \/ submit_task_zadd
  \/ \E id \in TaskIds : corrupt_record(id, TRUE)
  \/ WorkerRunOnce
  \/ \E id \in TaskIds, store_ok \in BOOLEAN : get_task_status_hget(id, store_ok)
  \/ \E store_ok \in BOOLEAN : get_task_status_result(store_ok)
  \/ ReadStep

SpecRead == Init /\ [][NextRead]_vars

(* The engine with records that decay in the store: callers submit and ask *)
(* for the status while the workers run.  The clock stands still.          *)
NextDecay ==
  \/ \E type \in TaskTypes : register_handler(type)
  \/ start
  \/ (next_id < MaxTasks /\ SubmitNormal)
  \/ submit_task_hset
  \/ submit_task_zadd
  \/ \E id \in TaskIds, undecodable \in BOOLEAN : corrupt_record(id, undecodable)
  \/ WorkerRun
  \/ \E id \in TaskIds : get_task_status_hget(id, TRUE)
  \/ get_task_status_result(TRUE)

SpecDecay == Init /\ [][NextDecay]_vars

(* the cleanup thread takes a step *)
ReaperStep ==
  \/ cleanup_loop_test
  \/ cleanup_expired_scan
  \/ \E id \in TaskIds : cleanup_expired_zrem(id)
  \/ cleanup_results_hkeys
  \/ \E id \in TaskIds : cleanup_results_hget(id)
  \/ cleanup_results_hdel

(* The engine left to itself: tasks are submitted, nobody cancels, and the *)
(* threads are scheduled fairly: a worker thread or the cleanup thread     *)
(* that can take a step takes one, and a submit_task call under way ends.  *)
NextLive ==
  \/ Tick
  \/ \E type \in TaskTypes : register_handler(type)
  \/ start
  \/ (next_id < MaxTasks /\ Submit)
  \/ submit_task_hset
  \/ submit_task_zadd
  \/ WorkerStep
  \/ ExecutorStep
  \/ ReaperStep

SpecLive ==
  /\ Init
  /\ [][NextLive]_vars
  /\ WF_vars(submit_task_hset)
  /\ WF_vars(submit_task_zadd)
  /\ WF_vars(WorkerStep)
  /\ WF_vars(ReaperStep)

(* the cleanup thread takes a step for which the clock need not have moved *)
(* (a scan; with no record grown old there is nothing to remove)           *)
ReaperScan ==
  \/ cleanup_loop_test
  \/ cleanup_expired_scan
  \/ cleanup_results_hkeys
  \/ \E id \in TaskIds : cleanup_results_hget(id)

(* submit_task with the default priority and timeout (with the clock       *)
(* standing still neither plays a part) and at most MaxLoopRetries retries *)
SubmitDefault ==
  \E type \in TaskTypes, payload \in Payloads, max_retries \in 0..MaxLoopRetries :
    submit_task(type, payload, "NORMAL", DefaultTimeout, max_retries)

(* The background loops from start to stop: the engine is started once,    *)
(* tasks are submitted, store commands of the worker threads and of the    *)
(* cleanup thread may raise, and stop is called.  The clock stands still.  *)
(* The threads are scheduled fairly; nothing makes a store command raise.  *)
NextLoops ==
  \/ \E type \in TaskTypes : register_handler(type)
  \/ (stopper.pc = "idle" /\ start)
  \/ (next_id < MaxTasks /\ SubmitDefault)
  \/ submit_task_hset
  \/ submit_task_zadd
  \/ WorkerRun
  \/ ReaperScan
  \/ \E w \in Workers : get_next_task_raises(w)
  \/ \E w \in Workers : process_task_raises(w)
  \/ \E w \in Workers : process_task_srem_raises(w)
  \/ \E w \in Workers : store_result_raises(w)
  \/ cleanup_raises
  \/ \E id \in TaskIds : cleanup_results_hget_raises(id)
  \/ stop_flag
  \/ stop_join
  \/ stop_shutdown
  \/ stop_return

SpecLoops ==
  /\ Init
  /\ [][NextLoops]_vars
  /\ WF_vars(WorkerRun)
  /\ WF_vars(ReaperScan)

(* ---------------- the task codec and the two staleness tests ---------- *)
(* One task value, as a caller may build it, goes through Task.to_dict and *)
(* Task.from_dict; the decoded task is given to the worker's staleness     *)
(* test and the dict to the cleanup thread's, both at the same clock.      *)
(* submit_task passes any timeout on to Task (lines 185-208 check none).   *)
CodecTimeouts == {0 - 1, 0, ShortTimeout, DefaultTimeout}
CodecStamps == 0..MaxNow
CodecTasks ==
  {[Task(1, "query", "p", priority, timeout, 0, created_at) EXCEPT
      !.status = status, !.started_at = started_at,
      !.completed_at = completed_at, !.result = result] :
     status \in StatusMembers, priority \in PriorityMembers,
     timeout \in CodecTimeouts, created_at \in CodecStamps,
     started_at \in {NoTime} \cup CodecStamps,
     completed_at \in {NoTime} \cup CodecStamps,
     result \in {None, ResultDatetime} \cup ReturnValues}

engine == <<now, store, task_handlers, running, stats, worker, reaper, submitter,
            canceller, next_id, calls, history, lifecycle, reader>>

InitCodec ==
  /\ InitEngine
  /\ \E t \in CodecTasks, clock \in CodecStamps :
       codec = [IdleCodec EXCEPT !.pc = "task", !.task = t, !.clock = clock]

(* lines 61-70: Task.to_dict *)
codec_to_dict ==
  /\ codec.pc = "task"
  /\ codec' = [codec EXCEPT !.data = to_dict(codec.task), !.pc = "dict"]
  /\ UNCHANGED engine

(* lines 72-86: Task.from_dict *)
codec_from_dict ==
  /\ codec.pc = "dict"
  /\ codec' = [codec EXCEPT !.back = from_dict(codec.data), !.pc = "back"]
  /\ UNCHANGED engine

(* lines 362 and 460-466: the worker's test, on the decoded task *)
codec_is_task_expired ==
  /\ codec.pc = "back"
  /\ codec' = [codec EXCEPT
       !.worker_expired = is_task_expired(codec.back, codec.clock),
       !.pc = "worker"]
  /\ UNCHANGED engine

(* lines 505-515: the cleanup thread's test, on the stored dict *)
codec_cleanup_test ==
  /\ codec.pc = "worker"
  /\ codec' = [codec EXCEPT
       !.reaper_expired =
          codec.data.id \in expired_pending(hset(Empty, codec.data.id, codec.data),
                                            codec.clock),
       !.pc = "done"]
  /\ UNCHANGED engine

NextCodec ==
  \/ codec_to_dict
  \/ codec_from_dict
  \/ codec_is_task_expired
  \/ codec_cleanup_test

SpecCodec == InitCodec /\ [][NextCodec]_vars

(* ================================ claims ============================== *)
(* worker w is between its pop of task id and the end of its write-back of *)
(* the record (the hset of line 436, or the one of _mark_task_expired)     *)
InHand(w, id) ==
  /\ worker[w].task_id = id
  /\ worker[w].pc \in {"enter", "hget", "expire", "mark", "sadd", "submit", "exec",
                       "store_result", "expire_result", "tasks_processed", "requeue",
                       "store_error", "expire_error", "tasks_failed", "writeback"}

Submitted == 1..next_id
Returned == issued
Overdue(id) ==
  /\ tasks[id].timeout > 0
  /\ (now - fromisoformat(tasks[id].created_at)) > tasks[id].timeout
Terminal == {TaskStatus.COMPLETED, TaskStatus.FAILED, TaskStatus.CANCELLED,
             TaskStatus.EXPIRED}
(* no worker has the task, and it is not waiting in the queue *)
AtRest(id) ==
  /\ id \notin DOMAIN queue
  /\ \A w \in Workers : worker[w].task_id # id

(* C1: at most one worker at a time is between taking a task id off the    *)
(* queue and finishing its write-back for that id, retries included; no    *)
(* task is run by two workers at once.                                     *)
C1_SingleOwner ==
  \A id \in Submitted : \A w1, w2 \in Workers :
    (InHand(w1, id) /\ InHand(w2, id)) => w1 = w2

(* C2: every Critical task is taken off the queue before any Low task     *)
(* submitted at the same or a later time: when a pop returns a Low task,   *)
(* no Critical task submitted before it (ids are handed out in submission  *)
(* order) is still waiting in the queue.                                   *)
C2_PriorityOrder ==
  [][\A w \in Workers :
       (/\ worker[w].pc = "poll"
        /\ worker'[w].pc = "enter"
        /\ tasks[worker'[w].task_id].priority = TaskPriority.LOW)
         => \A c \in DOMAIN queue :
              ~(c < worker'[w].task_id /\ tasks[c].priority = TaskPriority.CRITICAL)]_vars

(* C3: a task whose handler raises on every invocation (none returned a    *)
(* value, none outlived its wait), and which is never cancelled nor older  *)
(* than its timeout, has its handler invoked at most max_retries + 1       *)
(* times; after that many invocations it is not in the queue again and,    *)
(* once no worker has it, it is stored as failed.                          *)
C3_AlwaysRaising ==
  \A id \in Returned :
    (/\ calls.cancel = 0
     /\ ~Overdue(id)
     /\ returned[id] = 0
     /\ timed_out[id] = 0
     /\ invoked[id] > 0)
      => /\ invoked[id] <= tasks[id].max_retries + 1
         /\ invoked[id] = tasks[id].max_retries + 1 => id \notin DOMAIN queue
         /\ (invoked[id] = tasks[id].max_retries + 1 /\ AtRest(id))
              => tasks[id].status = TaskStatus.FAILED

(* C4: a task whose handler raises k < max_retries times and then returns  *)
(* a value (never cancelled, never older than its timeout, no invocation   *)
(* outliving its wait) ends completed, with that value as its result and   *)
(* with retry_count = k.                                                   *)
C4_RetryThenSucceed ==
  \A id \in Returned :
    (/\ calls.cancel = 0
     /\ ~Overdue(id)
     /\ returned[id] = 1
     /\ timed_out[id] = 0
     /\ invoked[id] - 1 < tasks[id].max_retries
     /\ AtRest(id))
      => /\ get_task_status(id).status = TaskStatus.COMPLETED
         /\ get_task_status(id).result = last_value[id]
         /\ get_task_status(id).retry_count = invoked[id] - 1

(* C5: once a cancel_task call, made while the stored status was pending,  *)
(* has returned True, the task's handler is not invoked.                   *)
C5_CancelledNeverRuns ==
  [][\A id \in TaskIds : id \in cancel_ok => invoked'[id] = invoked[id]]_vars

(* C6: a cancel_task call made while the stored status is running or       *)
(* terminal returns False and changes neither the queue nor the record.    *)
C6_CancelTakenIsNoop ==
  [][/\ (canceller.pc = "idle" /\ canceller'.pc = "hget"
           /\ canceller'.call_status # TaskStatus.PENDING)
          => queue' = queue
     /\ (canceller.pc # "idle" /\ canceller'.pc = "idle"
           /\ canceller.call_status # TaskStatus.PENDING)
          => (canceller'.ret = FALSE /\ tasks' = tasks)]_vars

(* C7: when the cleanup cycle is done with a task that waits in the queue, *)
(* was never taken off it and is still pending past its timeout, the task  *)
(* is out of the queue and get_task_status reports it expired.             *)
C7_ReaperExpires ==
  [][\A id \in TaskIds :
       (/\ reaper.pc = "zrem"
        /\ id \in reaper.expired_tasks
        /\ id \notin reaper'.expired_tasks
        /\ id \notin dequeued
        /\ id \in DOMAIN queue
        /\ tasks[id].status = TaskStatus.PENDING)
         => /\ id \notin DOMAIN queue'
            /\ (get_task_status(id).status)' = TaskStatus.EXPIRED]_vars

(* C8: a stored record with status expired has started_at unset. *)
C8_ExpiredNeverStarted ==
  \A id \in DOMAIN tasks :
    tasks[id].status = TaskStatus.EXPIRED => tasks[id].started_at = <<>>

(* C9: in the state in which submit_task returns an id, before any other   *)
(* step, get_task_status(id) is a record (not not-found) with status       *)
(* pending and retry_count 0.                                              *)
C9_SubmitVisible ==
  [][\A id \in TaskIds :
       (submitter.pc = "zadd" /\ submitter.task_id = id /\ submitter'.pc = "idle")
         => /\ (get_task_status(id))' # NotFound
            /\ (get_task_status(id).status)' = TaskStatus.PENDING
            /\ (get_task_status(id).retry_count)' = 0]_vars

(* C9's case: submit_task has returned an id whose record is pending *)
C9_Witness ==
  /\ next_id > 0
  /\ submitter.pc = "idle"
  /\ next_id \in DOMAIN queue
  /\ get_task_status(next_id) # NotFound
  /\ get_task_status(next_id).status = TaskStatus.PENDING

(* C10: when a worker is done with a task whose type has no registered     *)
(* handler, the task is stored as failed, the Result Store holds its       *)
(* error, and the id is not in the queue.                                  *)
C10_NoHandlerFails ==
  [][\A w \in Workers :
       (worker[w].pc = "no_handler" /\ worker'[w].pc = "finally")
         => /\ tasks'[worker[w].task_id].status = TaskStatus.FAILED
            /\ worker[w].task_id \in DOMAIN results'
            /\ worker[w].task_id \notin DOMAIN queue']_vars

(* C11: once a record is stored with a terminal status (completed, failed, *)
(* cancelled or expired), no step changes the stored record.               *)
C11_TerminalAbsorbing ==
  [][\A id \in DOMAIN tasks :
       tasks[id].status \in Terminal => tasks'[id] = tasks[id]]_vars

(* C12: a task re-queued for a retry (it is in the queue and its handler   *)
(* has been invoked, so its score is the retry time: failure time plus     *)
(* min(2^retry_count, 300)) is not popped before that time.                *)
C12_BackoffRespected ==
  [][\A w \in Workers : \A id \in DOMAIN queue :
       (/\ worker[w].pc = "poll"
        /\ worker'[w].pc = "enter"
        /\ worker'[w].task_id = id
        /\ invoked[id] > 0)
         => queue[id] <= now]_vars

(* C14: for a task no worker holds, and whose result is not yet older than *)
(* result_ttl, the results hash has an entry exactly when the stored       *)
(* status is completed or failed.                                          *)
C14_ResultIffTerminal ==
  \A id \in Returned :
    (/\ \A w \in Workers : worker[w].task_id # id
     /\ canceller.task_id # id
     /\ (tasks[id].completed_at # <<>>
           => (now - fromisoformat(tasks[id].completed_at)) <= result_ttl))
      => (id \in DOMAIN results
            <=> tasks[id].status \in {TaskStatus.COMPLETED, TaskStatus.FAILED})

(* C15: when the cleanup cycle deletes the result of a completed task      *)
(* (older than result_ttl), get_task_status no longer reports that result: *)
(* it is not-found, or its result field is None.                           *)
C15_ResultGoneAfterTtl ==
  [][\A id \in DOMAIN tasks :
       (/\ reaper.pc = "hdel"
        /\ reaper'.pc = "idle"
        /\ id \in reaper.old_results
        /\ tasks[id].status = TaskStatus.COMPLETED)
         => \/ (get_task_status(id))' = NotFound
            \/ (get_task_status(id).result)' = None]_vars

(* C13: a task whose every handler invocation outlived its deadline (each  *)
(* wait ran out, each invocation waited for was called; the engine never   *)
(* stopped) ends, once no worker has it and it is not queued, as a task    *)
(* whose handler always raises does: stored failed after max_retries + 1   *)
(* invocations, with its error in the results hash.                        *)
C13_TimeoutLikeRaise ==
  \A id \in Returned :
    (/\ stopper.pc = "idle"
     /\ invoked[id] > 0
     /\ timed_out[id] = invoked[id]
     /\ executor.unstarted[id] = 0
     /\ AtRest(id))
      => /\ tasks[id].status = TaskStatus.FAILED
         /\ invoked[id] = tasks[id].max_retries + 1
         /\ id \in DOMAIN results

(* C20: a call of stop that has cleared the flag returns.                  *)
C20_StopCompletes == (stopper.pc = "join") ~> (stopper.pc = "done")

(* C16: a step of get_task_status, get_stats or get_queue_info leaves the  *)
(* task records, the queue, the processing set, the results and the        *)
(* counters unchanged; and what a get_task_status call returns (no store   *)
(* command having raised, the record being the one it read) is determined  *)
(* by the stored state alone, so that a repeated call returns the same.    *)
C16_ReadOnly ==
  [][reader' # reader =>
       /\ UNCHANGED <<tasks, queue, processing, results, stats>>
       /\ \A id \in TaskIds :
            (/\ reader'.pc = "idle"
             /\ reader'.op = "get_task_status"
             /\ reader'.task_id = id
             /\ ~reader'.store_failed
             /\ (reader.pc = "result" => tasks[id] = reader.task_dict))
              => /\ reader'.ret = get_task_status(id)
                 /\ reader'.ret = (get_task_status(id))']_vars

(* C16's case: get_task_status has returned the record of a completed task *)
(* with the result merged in from the results hash                         *)
C16_Witness ==
  /\ reader.pc = "idle"
  /\ reader.op = "get_task_status"
  /\ ~reader.store_failed
  /\ reader.ret # NotFound
  /\ reader.ret.status = TaskStatus.COMPLETED
  /\ reader.task_id \in DOMAIN results
  /\ reader.ret.result = results[reader.task_id].result
  /\ reader.ret.result \in ReturnValues

(* C17: a get_task_status call during which a store command raised does    *)
(* not return None (its not-found answer), and a cancel_task call during   *)
(* which one raised does not return one of its normal answers True and     *)
(* False.  (submit_task re-raises.)                                        *)
C17_StoreFailureSurfaced ==
  /\ (/\ reader.pc = "idle"
      /\ reader.op = "get_task_status"
      /\ reader.store_failed
      /\ reader.task_id \in DOMAIN tasks)
       => reader.ret # NotFound
  /\ (canceller.pc = "idle" /\ canceller.store_failed)
       => canceller.ret \notin {TRUE, FALSE}

(* C18: get_task_status on a malformed record does not answer not-found;   *)
(* and a worker that has dequeued a malformed record leaves an error for   *)
(* it: the record stored failed, or an entry in the results hash.          *)
C18_MalformedSurfaced ==
  [][\A id \in DOMAIN tasks :
       ~well_formed(tasks[id]) =>
         /\ (/\ reader.pc = "idle"
             /\ reader'.pc = "idle"
             /\ reader'.op = "get_task_status"
             /\ reader'.task_id = id
             /\ reader' # reader)
              => reader'.ret # NotFound
         /\ \A w \in Workers :
              (/\ worker[w].pc = "rejected"
               /\ worker[w].task_id = id
               /\ worker'[w].pc = "finally")
                => \/ id \in DOMAIN results'
                   \/ (decodable(tasks'[id]) /\ tasks'[id].status = TaskStatus.FAILED)]_vars

(* C19: with the engine running, every task that waits in the queue after *)
(* its submit_task has returned, with a handler registered for its type,   *)
(* is eventually stored with a terminal status (unless the workers have    *)
(* made all the MaxPops pops considered).                                  *)
C19_NoWorkLost ==
  \A id \in TaskIds :
    (/\ running
     /\ id \in Returned
     /\ id \in DOMAIN queue
     /\ tasks[id].type \in task_handlers)
      ~> (get_task_status(id).status \in Terminal \/ calls.pop >= MaxPops)

(* C21: a step that stores a record with status running (the record was    *)
(* not there, or was another one) is the marking step of a worker that     *)
(* holds that id from a queue pop, and the record it stores has started_at *)
(* set; no step of submit_task, cancel_task or the cleanup thread stores   *)
(* running.                                                                *)
C21_RunningOnlyByOwner ==
  [][\A id \in DOMAIN tasks' :
       (/\ tasks'[id].status = TaskStatus.RUNNING
        /\ (id \notin DOMAIN tasks \/ tasks[id] # tasks'[id]))
         => /\ \E w \in Workers :
                 /\ worker[w].pc = "mark"
                 /\ worker[w].task_id = id
                 /\ worker'[w].pc = "sadd"
                 /\ id \in dequeued
            /\ tasks'[id].started_at # <<>>
            /\ submitter' = submitter
            /\ canceller' = canceller
            /\ reaper' = reaper]_vars

(* C21's case: a worker has just stored the record of the id it popped as  *)
(* running, started now                                                    *)
C21_Witness ==
  \E w \in Workers :
    /\ worker[w].pc = "sadd"
    /\ worker[w].task_id \in dequeued
    /\ tasks[worker[w].task_id].status = TaskStatus.RUNNING
    /\ tasks[worker[w].task_id].started_at = isoformat(now)

(* C22 as stated: a worker that popped an id whose record was then pending *)
(* and older than its timeout only reads the record and stores it as       *)
(* expired: it never gets to the marking as running, the sadd or the       *)
(* handler, so the handler is not invoked and the id is not added to the   *)
(* processing set; and its last store command stores the record with       *)
(* status expired.                                                         *)
C22_StaleSkipsExecution ==
  [][\A w \in Workers :
       worker[w].aged =>
         /\ worker[w].pc \in {"enter", "hget", "expire", "finally"}
         /\ worker'[w] # worker[w] =>
              /\ worker'[w].pc \in {"hget", "expire", "finally", "idle"}
              /\ invoked' = invoked
              /\ processing' = processing
              /\ worker'[w].pc = "finally" =>
                   tasks'[worker[w].task_id].status = TaskStatus.EXPIRED]_vars

(* C22 amended: the same of a worker that popped an id whose record was    *)
(* then pending, had a timeout greater than 0 and was older than that      *)
(* timeout.  (A task with a timeout of 0 or less never expires: the worker *)
(* runs it at any age.)                                                    *)
C22_StaleWithTimeoutSkipsExecution ==
  [][\A w \in Workers :
       worker[w].stale =>
         /\ worker[w].pc \in {"enter", "hget", "expire", "finally"}
         /\ worker'[w] # worker[w] =>
              /\ worker'[w].pc \in {"hget", "expire", "finally", "idle"}
              /\ invoked' = invoked
              /\ processing' = processing
              /\ worker'[w].pc = "finally" =>
                   tasks'[worker[w].task_id].status = TaskStatus.EXPIRED]_vars

(* C22's case: a worker that popped a stale pending task (its timeout      *)
(* greater than 0) is done with it, the handler never having been invoked  *)
C22_Witness ==
  \E id \in DOMAIN tasks :
    /\ id \in dequeued
    /\ invoked[id] = 0
    /\ tasks[id].timeout > 0
    /\ tasks[id].status = TaskStatus.EXPIRED
    /\ tasks[id].started_at = <<>>
    /\ \A w \in Workers : worker[w].pc = "idle"

(* C23: a step of the cleanup thread neither removes from the queue, nor   *)
(* changes the record of, a task that a worker holds (between its pop of   *)
(* the id and the end of its write-back).                                  *)
C23_ReaperSparesHeld ==
  [][\A id \in TaskIds :
       (reaper' # reaper /\ \E w \in Workers : InHand(w, id))
         => /\ id \in DOMAIN queue => id \in DOMAIN queue'
            /\ id \in DOMAIN tasks => tasks'[id] = tasks[id]]_vars

(* C24: every id in the queue has a stored record, and its status is       *)
(* pending.                                                                *)
C24_QueuedArePending ==
  \A id \in DOMAIN queue :
    id \in DOMAIN tasks /\ tasks[id].status = TaskStatus.PENDING

(* C27: a stored record with status pending or running has neither a      *)
(* result nor an error.                                                    *)
C27_OutcomeOnlyWhenTerminal ==
  \A id \in DOMAIN tasks :
    tasks[id].status \in {TaskStatus.PENDING, TaskStatus.RUNNING}
      => tasks[id].result = None /\ tasks[id].error = None

(* C30: when the cleanup cycle deletes the result (older than result_ttl)  *)
(* of a task stored with a terminal status, the task's record is deleted   *)
(* from the tasks hash too; and when a cancel_task call made on a pending  *)
(* task returns True, the task's record is gone from the tasks hash.       *)
C30_RecordsDeleted ==
  [][\A id \in DOMAIN tasks :
       /\ (/\ reaper.pc = "hdel"
           /\ reaper'.pc = "idle"
           /\ id \in reaper.old_results
           /\ tasks[id].status \in Terminal)
            => id \notin DOMAIN tasks'
       /\ (/\ canceller.pc = "hset"
           /\ canceller'.pc = "idle"
           /\ canceller.task_id = id
           /\ canceller.call_status = TaskStatus.PENDING
           /\ canceller'.ret = TRUE)
            => id \notin DOMAIN tasks']_vars

(* the task was never put back on the queue for a retry *)
NeverRetried(id) == id \notin requeued

(* C25 as stated: when a pop returns a never-retried task, no never-retried *)
(* task of the same priority that was submitted earlier (ids are handed    *)
(* out in submission order) is still waiting in the queue.                 *)
C25_FifoInTier ==
  [][\A w \in Workers : \A id, other \in DOMAIN queue :
       (/\ worker[w].pc = "poll"
        /\ worker'[w].pc = "enter"
        /\ worker'[w].task_id = id
        /\ NeverRetried(id)
        /\ NeverRetried(other)
        /\ tasks[other].priority = tasks[id].priority)
         => ~(other < id)]_vars

(* C25 amended: the same for two tasks whose scores were computed in       *)
(* different clock seconds (int(time.time()), line 213): the one submitted *)
(* earlier is popped first.  Two tasks of one priority submitted within    *)
(* the same second have the same score and are popped in either order.     *)
C25_FifoAcrossSeconds ==
  [][\A w \in Workers : \A id, other \in DOMAIN queue :
       (/\ worker[w].pc = "poll"
        /\ worker'[w].pc = "enter"
        /\ worker'[w].task_id = id
        /\ NeverRetried(id)
        /\ NeverRetried(other)
        /\ tasks[other].priority = tasks[id].priority
        /\ queue[other] # queue[id])
         => ~(other < id)]_vars

(* C25's case: of two never-retried tasks of one priority, scored in       *)
(* different seconds and both waiting, the earlier one has been popped and *)
(* the later one still waits                                               *)
C25_Witness ==
  \E w \in Workers : \E id, other \in DOMAIN tasks :
    /\ worker[w].pc = "enter"
    /\ worker[w].task_id = id
    /\ other \in worker[w].behind
    /\ other \in DOMAIN queue
    /\ id < other
    /\ NeverRetried(id)
    /\ NeverRetried(other)
    /\ tasks[other].priority = tasks[id].priority
    /\ worker[w].score < queue[other]

(* C26: a task put back on the queue for a retry is scored as a fresh task *)
(* of its priority would be at the retry time (priority.value * 1000000 +  *)
(* retry time); and when a pop returns a retried task, no task of a higher *)
(* priority is left waiting in the queue.                                  *)
C26_RetryKeepsPriority ==
  [][\A w \in Workers :
       /\ (worker[w].pc = "requeue" /\ worker'[w].pc = "writeback")
            => queue'[worker[w].task_id] =
                 priority_score(worker[w].task.priority,
                                retry_time(worker[w].task.retry_count,
                                           worker[w].task.completed_at))
       /\ \A id, other \in DOMAIN queue :
            (/\ worker[w].pc = "poll"
             /\ worker'[w].pc = "enter"
             /\ worker'[w].task_id = id
             /\ invoked[id] > 0)
              => ~(tasks[other].priority > tasks[id].priority)]_vars

(* C28: a step in which a store command raises in a worker thread or in    *)
(* the cleanup thread ends no thread, and a thread ends only in a step     *)
(* taken with the flag cleared.                                            *)
C28_LoopsSurviveErrors ==
  [][/\ \A w \in Workers :
          (worker[w].pc # "off" /\ worker'[w].pc = "off")
            => (~running /\ calls'.raised = calls.raised)
     /\ (reaper.pc # "off" /\ reaper'.pc = "off")
          => (~running /\ calls'.raised = calls.raised)]_vars

(* C28's case: a store command raised on a worker that had popped a task   *)
(* (the task, never run, is left pending outside the queue); the flag is   *)
(* set, and every worker thread and the cleanup thread is in its loop      *)
C28_Witness ==
  /\ calls.raised > 0
  /\ running
  /\ \A w \in Workers : worker[w].pc \in {"idle", "poll"}
  /\ reaper.pc # "off"
  /\ \E id \in dequeued :
       /\ AtRest(id)
       /\ invoked[id] = 0
       /\ tasks[id].status = TaskStatus.PENDING

(* C29: with the flag cleared by stop, a worker pops at most once more     *)
(* (the pop it was waiting in); a thread that comes to the test of its     *)
(* loop ends there; and every worker thread and the cleanup thread does    *)
(* end (unless a worker waits in a pop that the MaxPops pops considered    *)
(* do not include).                                                        *)
C29_StopEndsLoops ==
  /\ [][/\ \A w \in Workers : after_stop'[w] <= 1
        /\ \A w \in Workers :
             (~running /\ worker[w].pc = "idle" /\ worker'[w] # worker[w])
               => worker'[w].pc = "off"
        /\ (~running /\ reaper.pc = "idle" /\ reaper' # reaper)
             => reaper'.pc = "off"]_vars
  /\ (stopper.pc # "idle")
       ~> (\/ (\A w \in Workers : worker[w].pc = "off") /\ reaper.pc = "off"
           \/ calls.pop >= MaxPops)

(* C29's case: stop cleared the flag while a worker waited in its pop; the *)
(* worker popped once more, worked the task off, and every thread ended    *)
C29_Witness ==
  /\ stopper.pc # "idle"
  /\ \E w \in Workers : after_stop[w] = 1
  /\ \A w \in Workers : worker[w].pc = "off"
  /\ reaper.pc = "off"
  /\ calls.pop < MaxPops

(* C31: every id in the processing set is the id some worker holds (the    *)
(* worker has popped it and has not yet left _process_task), so that the   *)
(* set is empty when no worker has a task.                                 *)
C31_ProcessingAreHeld ==
  \A id \in processing : \E w \in Workers : worker[w].task_id = id

(* C33: a stored record whose status is pending, of a task whose           *)
(* submit_task has returned and that no cancel_task call is at work on,    *)
(* is in the queue or in the hands of a worker that popped it.             *)
C33_PendingNotStranded ==
  \A id \in Returned \cap DOMAIN tasks :
    (tasks[id].status = TaskStatus.PENDING /\ canceller.task_id # id)
      => \/ id \in DOMAIN queue
         \/ \E w \in Workers : worker[w].task_id = id

(* C34: a task's handler is invoked only while no earlier invocation for   *)
(* that task has returned a value: after a successful return there is no   *)
(* further invocation, store errors included.                              *)
C34_NoRunAfterSuccess ==
  [][\A id \in 1..MaxTasks :
       invoked'[id] > invoked[id] => returned[id] = 0]_vars

(* C35: every stored record (of a task submitted with max_retries >= 0)    *)
(* has 0 <= retry_count <= max_retries + 1, and a worker that puts an id   *)
(* back on the queue holds a task whose incremented retry_count is at most *)
(* max_retries.                                                            *)
C35_RetryCountBounded ==
  /\ [](\A id \in DOMAIN tasks :
          /\ 0 <= tasks[id].retry_count
          /\ tasks[id].retry_count <= tasks[id].max_retries + 1)
  /\ [][\A w \in Workers :
          (worker[w].pc = "requeue" /\ worker'[w].pc = "writeback")
            => worker[w].task.retry_count <= worker[w].task.max_retries]_vars

(* C35's case: a task that was re-queued at least once has used up its     *)
(* retries, and its record is stored with retry_count = max_retries + 1    *)
C35_Witness ==
  \E id \in DOMAIN tasks :
    /\ tasks[id].max_retries >= 1
    /\ tasks[id].retry_count = tasks[id].max_retries + 1
    /\ invoked[id] = tasks[id].max_retries + 1
    /\ AtRest(id)

(* C37: when submit_task returns an id, the record and the queue entry of  *)
(* that id both exist; when submit_task raises, there is neither a record  *)
(* nor a queue entry for the id it had drawn.                              *)
C37_SubmitAllOrNothing ==
  [][LET id == submitter.task_id
     IN /\ (submitter.pc = "zadd" /\ submitter'.pc = "idle" /\ ~submitter'.raised)
             => (id \in DOMAIN tasks' /\ id \in DOMAIN queue')
        /\ (submitter' # submitter /\ submitter'.pc = "idle" /\ submitter'.raised)
             => (id \notin DOMAIN tasks' /\ id \notin DOMAIN queue')]_vars

(* C32: Task.from_dict(Task.to_dict(t)) is t, for every task value t:      *)
(* status and priority come back as the same enum members, the three       *)
(* timestamps as the same times, and an unset started_at or completed_at   *)
(* comes back unset.                                                       *)
C32_RoundTrip ==
  codec.pc \in {"back", "worker", "done"} => codec.back = codec.task

(* C32, amended: status, priority and the three timestamps of every task   *)
(* value come back as they were, and the whole task comes back equal when  *)
(* its result is not a datetime.                                           *)
C32_RoundTripOfJsonResult ==
  codec.pc \in {"back", "worker", "done"}
    => /\ codec.back.status = codec.task.status
       /\ codec.back.priority = codec.task.priority
       /\ codec.back.created_at = codec.task.created_at
       /\ codec.back.started_at = codec.task.started_at
       /\ codec.back.completed_at = codec.task.completed_at
       /\ codec.task.result # ResultDatetime => codec.back = codec.task

(* C32's case: a completed task that never got a started_at has been       *)
(* encoded (status and priority as their values, times as ISO text) and    *)
(* decoded                                                                 *)
C32_Witness ==
  /\ codec.pc = "back"
  /\ codec.task.status = "COMPLETED"
  /\ codec.task.priority = "HIGH"
  /\ codec.task.started_at = NoTime
  /\ codec.task.completed_at = MaxNow
  /\ codec.task.result \in ReturnValues
  /\ codec.data.status = "completed"
  /\ codec.data.priority = 3
  /\ codec.data.started_at = <<>>
  /\ codec.data.completed_at = <<MaxNow>>

(* C36: for a pending record and any timeout, zero and negative ones       *)
(* included, the cleanup thread's test and the worker's test give the      *)
(* same verdict at the same clock.                                         *)
C36_SameStalenessVerdict ==
  (codec.pc = "done" /\ codec.task.status = "PENDING")
    => (codec.reaper_expired <=> codec.worker_expired)

====
